---- MODULE Spec2Model ----
(***************************************************************************)
(* Model of the plugin engine of the monitoring agent                      *)
(* (src/src/apps/agent/plugin.go): the scheduler loop monitorPlugins, the  *)
(* per-invocation task runPlugin with its watchdog killPlugin, the rate    *)
(* cache OutputCache, and the two first-line parsers; and of the plugin    *)
(* registry (src/unnamed/part_001): getAvailablePlugins, getPluginsInfo    *)
(* and parsePluginInfo.                                                    *)
(*                                                                         *)
(* Spec is the agent, SpecParse applies the parsers to first lines,        *)
(* SpecRates follows two runPlugin goroutines from their parse to their    *)
(* return over a filled OutputCache, SpecRegistry applies                  *)
(* getAvailablePlugins to the contents of the plugin directories.          *)
(*                                                                         *)
(* Text is a sequence of characters, so that splitting, trimming,          *)
(* tokenizing and number parsing are computed character by character as    *)
(* the Go code computes them. A character is a one-character string:       *)
(* U+0020 to U+007E without U+0060, and the white space U+0009 to U+000D,  *)
(* U+0085 and U+00A0. Every other one is the string "U+" with the four to  *)
(* six hexadecimal digits of its code point, "U+00E9" or "U+1F600".        *)
(***************************************************************************)
EXTENDS Integers, Sequences, FiniteSets, TLC

VARIABLES
    previousConfig,  \* monitorPlugins: var previousConfig (plugin.go:74)
    invs,            \* the runPlugin goroutines launched so far, with their watchdogs
    OutputCache,     \* plugin.go:61, key "plugin/instance" -> last PluginOutput
    crashed,         \* TRUE once a goroutine panicked: the process is gone
    lastFetched,     \* history: the last configuration GetPluginsToRun returned
    tick,            \* history: what the latest tick of monitorPlugins did
    pin,             \* harness: the input of the parser (format, exit status,
                     \* first line) or of getAvailablePlugins (the directories)
    pres             \* harness: the result for pin

vars == <<previousConfig, invs, OutputCache, crashed, lastFetched, tick, pin, pres>>

-----------------------------------------------------------------------------
(* strings                                                                 *)

\* unicode.IsSpace, which strings.TrimSpace asks: '\t', '\n', '\v', '\f', '\r',
\* ' ', U+0085 (NEL), U+00A0 (NBSP) and the white space above U+00FF
VT == ""
NEL == ""
NBSP == " "

WideSpaces ==
    {"U+1680", "U+2000", "U+2001", "U+2002", "U+2003", "U+2004", "U+2005", "U+2006",
     "U+2007", "U+2008", "U+2009", "U+200A", "U+2028", "U+2029", "U+202F", "U+205F",
     "U+3000"}

IsSpace(c) == c \in {"\t", "\n", VT, "\f", "\r", " ", NEL, NBSP} \cup WideSpaces

RECURSIVE TrimLeft(_)
TrimLeft(s) ==
    IF s = <<>> THEN <<>>
    ELSE IF IsSpace(Head(s)) THEN TrimLeft(Tail(s)) ELSE s

RECURSIVE TrimRight(_)
TrimRight(s) ==
    IF s = <<>> THEN <<>>
    ELSE IF IsSpace(s[Len(s)]) THEN TrimRight(SubSeq(s, 1, Len(s) - 1)) ELSE s

TrimSpace(s) == TrimRight(TrimLeft(s))

\* strings.Split(s, sep) for a one-character separator: always at least one
\* segment, n separators give n+1 segments.
\* st = [segs, start, i]: the segments that have ended before s[i], and the
\* index the open segment starts at; the characters s[lo] to s[hi] are looked
\* at in their order, those of the lower half of the indexes first
RECURSIVE SplitFrom(_, _, _, _, _)
SplitFrom(s, sep, lo, hi, st) ==
    IF lo > hi \/ st.i # lo THEN st
    ELSE IF lo = hi
         THEN (IF s[lo] = sep
               THEN [segs |-> Append(st.segs, SubSeq(s, st.start, lo - 1)),
                     start |-> lo + 1, i |-> lo + 1]
               ELSE [st EXCEPT !.i = lo + 1])
    ELSE SplitFrom(s, sep, (lo + hi) \div 2 + 1, hi,
                   SplitFrom(s, sep, lo, (lo + hi) \div 2, st))

\* the segment open at the end of s is the last one
SplitEnd(s, st) == Append(st.segs, SubSeq(s, st.start, Len(s)))

Split(s, sep) ==
    SplitEnd(s, SplitFrom(s, sep, 1, Len(s), [segs |-> <<>>, start |-> 1, i |-> 1]))

-----------------------------------------------------------------------------
(* strconv.ParseFloat(s, 64): special, readFloat and underscoreOK of       *)
(* strconv/atof.go. A float64 is a record: class "finite" with the sign,   *)
(* the decimal digits and the power of ten of the number                   *)
(* (digits * 10^exp, no leading and no trailing zero digit, no digit for   *)
(* zero), class "inf" with the sign, or class "nan". Equal numbers are     *)
(* equal records ("1.0" and "1", "0.50" and "0.5", "1e2" and "100"). The   *)
(* number is the float64 nearest to the text, ties to the even mantissa,   *)
(* written out exactly: "0.1" is 1000000000000000055511151231257827 *      *)
(* 10^-34. Long numbers are sequences of decimal digit values, the units   *)
(* first. atof64 has three ways to the number: atof64exact, eiselLemire64  *)
(* and the decimal of strconv/decimal.go with floatBits. All three give    *)
(* the nearest float64 as long as the 800 digits of the decimal hold the   *)
(* digits before the point; for a text with more of them the decimal puts  *)
(* the point after its 800th digit, and the number is the nearest one only *)
(* when eiselLemire64 finds it.                                            *)

Digits == <<"0", "1", "2", "3", "4", "5", "6", "7", "8", "9">>

IsDigit(c) == \E i \in 1..Len(Digits) : Digits[i] = c

DigitVal(c) == (CHOOSE i \in 1..Len(Digits) : Digits[i] = c) - 1

LowerLetters ==
    <<"a", "b", "c", "d", "e", "f", "g", "h", "i", "j", "k", "l", "m",
      "n", "o", "p", "q", "r", "s", "t", "u", "v", "w", "x", "y", "z">>

UpperLetters ==
    <<"A", "B", "C", "D", "E", "F", "G", "H", "I", "J", "K", "L", "M",
      "N", "O", "P", "Q", "R", "S", "T", "U", "V", "W", "X", "Y", "Z">>

\* an upper-case ASCII letter as the lower-case one, any other character as it is
lower(c) ==
    IF \E k \in 1..26 : UpperLetters[k] = c
    THEN LowerLetters[CHOOSE k \in 1..26 : UpperLetters[k] = c]
    ELSE c

IsHexLetter(c) == lower(c) \in {"a", "b", "c", "d", "e", "f"}
IsHex(c) == IsDigit(c) \/ IsHexLetter(c)

\* the value of a decimal digit or of a hexadecimal letter
HexVal(c) ==
    IF IsDigit(c) THEN DigitVal(c)
    ELSE 9 + (CHOOSE k \in 1..6 : LowerLetters[k] = lower(c))

Finite(neg, digits, exp) == [class |-> "finite", neg |-> neg, digits |-> digits, exp |-> exp]
Inf(neg) == [class |-> "inf", neg |-> neg, digits |-> <<>>, exp |-> 0]
NaN == [class |-> "nan", neg |-> FALSE, digits |-> <<>>, exp |-> 0]
Zero(neg) == Finite(neg, <<>>, 0)

\* commonPrefixLenIgnoreCase(s, prefix)
RECURSIVE commonPrefixLenIgnoreCase(_, _)
commonPrefixLenIgnoreCase(s, prefix) ==
    IF s = <<>> \/ prefix = <<>> \/ lower(Head(s)) # Head(prefix) THEN 0
    ELSE 1 + commonPrefixLenIgnoreCase(Tail(s), Tail(prefix))

NoSpecial == [ok |-> FALSE, f |-> Zero(FALSE), n |-> 0]

\* s with c characters of "infinity" after nsign sign characters: 3 to 7 of
\* them spell "inf", 8 spell "infinity"
specialInf(neg, nsign, c) ==
    IF c = 8 THEN [ok |-> TRUE, f |-> Inf(neg), n |-> nsign + 8]
    ELSE IF c >= 3 THEN [ok |-> TRUE, f |-> Inf(neg), n |-> nsign + 3]
    ELSE NoSpecial

\* special(s): [ok, f, n], n the number of characters that spell the value
special(s) ==
    IF s = <<>> THEN NoSpecial
    ELSE IF Head(s) \in {"+", "-", "i", "I"}
         THEN specialInf(Head(s) = "-", IF Head(s) \in {"+", "-"} THEN 1 ELSE 0,
                         commonPrefixLenIgnoreCase(
                             IF Head(s) \in {"+", "-"} THEN Tail(s) ELSE s,
                             <<"i", "n", "f", "i", "n", "i", "t", "y">>))
    ELSE IF Head(s) \in {"n", "N"} /\ commonPrefixLenIgnoreCase(s, <<"n", "a", "n">>) = 3
         THEN [ok |-> TRUE, f |-> NaN, n |-> 3]
    ELSE NoSpecial

\* one turn of the mantissa loop of readFloat at s[i]:
\* st = [hex, digits, nd, dp, sawdot, sawdigits, underscores, i]; digits are
\* the values of the digits after the leading zeros, i is the index the loop
\* is at, and it stays at the character that ends the loop
mantissaStep(s, i, st) ==
    IF s[i] = "_" THEN [st EXCEPT !.underscores = TRUE, !.i = i + 1]
    ELSE IF s[i] = "."
         THEN IF st.sawdot THEN st
              ELSE [st EXCEPT !.sawdot = TRUE, !.dp = st.nd, !.i = i + 1]
    ELSE IF IsDigit(s[i]) \/ (st.hex /\ IsHexLetter(s[i]))
         THEN IF s[i] = "0" /\ st.nd = 0
              THEN [st EXCEPT !.sawdigits = TRUE, !.dp = st.dp - 1, !.i = i + 1]
              ELSE [st EXCEPT !.sawdigits = TRUE, !.nd = st.nd + 1,
                              !.digits = Append(st.digits, HexVal(s[i])), !.i = i + 1]
    ELSE st

\* the turns of the mantissa loop at s[lo] to s[hi], those of the lower half
\* of the indexes before those of the upper half; a loop that has ended
\* before s[lo] takes none of them
RECURSIVE ScanMantissa(_, _, _, _)
ScanMantissa(s, lo, hi, st) ==
    IF lo > hi \/ st.i # lo THEN st
    ELSE IF lo = hi THEN mantissaStep(s, lo, st)
    ELSE ScanMantissa(s, (lo + hi) \div 2 + 1, hi,
                      ScanMantissa(s, lo, (lo + hi) \div 2, st))

\* one turn of the exponent loop of readFloat at s[i]: st = [e, underscores,
\* i], and i stays at the character that ends the loop
exponentStep(s, i, st) ==
    IF s[i] = "_" THEN [st EXCEPT !.underscores = TRUE, !.i = i + 1]
    ELSE IF IsDigit(s[i])
         THEN [st EXCEPT !.e = IF st.e < 10000 THEN st.e * 10 + DigitVal(s[i]) ELSE st.e,
                         !.i = i + 1]
    ELSE st

\* the turns of the exponent loop at s[lo] to s[hi]
RECURSIVE ScanExponent(_, _, _, _)
ScanExponent(s, lo, hi, st) ==
    IF lo > hi \/ st.i # lo THEN st
    ELSE IF lo = hi THEN exponentStep(s, lo, st)
    ELSE ScanExponent(s, (lo + hi) \div 2 + 1, hi,
                      ScanExponent(s, lo, (lo + hi) \div 2, st))

\* underscoreOK(s): an underscore stands only between digits, or between a
\* base prefix and a digit; saw is "^", "0", "_" or "!"
\* "bad" once an underscore stands where it may not
underscoreStep(c, hex, saw) ==
    IF saw = "bad" THEN saw
    ELSE IF IsDigit(c) \/ (hex /\ IsHexLetter(c)) THEN "0"
    ELSE IF c = "_" THEN (IF saw # "0" THEN "bad" ELSE "_")
    ELSE IF saw = "_" THEN "bad"
    ELSE "!"

\* saw after the characters s[lo] to s[hi]
RECURSIVE underscoreScan(_, _, _, _, _)
underscoreScan(s, lo, hi, hex, saw) ==
    IF lo > hi \/ saw = "bad" THEN saw
    ELSE IF lo = hi THEN underscoreStep(s[lo], hex, saw)
    ELSE underscoreScan(s, (lo + hi) \div 2 + 1, hi, hex,
                        underscoreScan(s, lo, (lo + hi) \div 2, hex, saw))

\* t is s without its sign
underscoreUnsigned(t) ==
    IF Len(t) >= 2 /\ t[1] = "0" /\ lower(t[2]) \in {"b", "o", "x"}
    THEN underscoreScan(t, 3, Len(t), lower(t[2]) = "x", "0") \notin {"_", "bad"}
    ELSE underscoreScan(t, 1, Len(t), FALSE, "^") \notin {"_", "bad"}

underscoreOK(s) ==
    underscoreUnsigned(IF s # <<>> /\ Head(s) \in {"-", "+"} THEN Tail(s) ELSE s)

NoFloat ==
    [ok |-> FALSE, neg |-> FALSE, hex |-> FALSE, digits |-> <<>>, nd |-> 0, dp |-> 0,
     e |-> 0, i |-> 1]

\* readFloat after the mantissa m and the exponent x, whose digits start at
\* s[k]; mark says that an exponent follows the mantissa
readFloatEnd(s, neg, hex, m, mark, k, x) ==
    IF ~m.sawdigits THEN NoFloat
    ELSE IF mark /\ (k > Len(s) \/ ~IsDigit(s[k])) THEN NoFloat
    ELSE IF ~mark /\ hex THEN NoFloat
    ELSE IF /\ IF mark THEN x.underscores ELSE m.underscores
            /\ ~underscoreOK(SubSeq(s, 1, (IF mark THEN x.i ELSE m.i) - 1))
         THEN NoFloat
    ELSE [ok |-> TRUE, neg |-> neg, hex |-> hex, digits |-> m.digits, nd |-> m.nd,
          dp |-> IF m.sawdot THEN m.dp ELSE m.nd,
          e |-> IF ~mark THEN 0 ELSE IF s[m.i + 1] = "-" THEN 0 - x.e ELSE x.e,
          i |-> IF mark THEN x.i ELSE m.i]

readFloatExponent(s, neg, hex, m, mark, k) ==
    readFloatEnd(s, neg, hex, m, mark, k,
                 ScanExponent(s, k, Len(s),
                              [e |-> 0, underscores |-> m.underscores, i |-> k]))

\* readFloat after the mantissa m: the exponent is marked by "e", or by "p"
\* after hexadecimal digits, and may have a sign
readFloatMark(s, neg, hex, m) ==
    readFloatExponent(s, neg, hex, m,
                      m.i <= Len(s) /\ lower(s[m.i]) = (IF hex THEN "p" ELSE "e"),
                      IF m.i + 1 <= Len(s) /\ s[m.i + 1] \in {"+", "-"}
                      THEN m.i + 2 ELSE m.i + 1)

readFloatMantissa(s, neg, i0, hex) ==
    readFloatMark(s, neg, hex,
                  ScanMantissa(s, IF hex THEN i0 + 2 ELSE i0, Len(s),
                      [hex |-> hex, digits |-> <<>>, nd |-> 0, dp |-> 0, sawdot |-> FALSE,
                       sawdigits |-> FALSE, underscores |-> FALSE,
                       i |-> IF hex THEN i0 + 2 ELSE i0]))

\* readFloat after the sign: the number starts at s[i0]
readFloatBase(s, neg, i0) ==
    readFloatMantissa(s, neg, i0, i0 + 2 <= Len(s) /\ s[i0] = "0" /\ lower(s[i0 + 1]) = "x")

\* readFloat(s): [ok, neg, hex, digits, nd, dp, e, i]; dp counts decimal or
\* hexadecimal digits and holds no exponent yet, e is the exponent, i - 1
\* characters were read
readFloat(s) ==
    IF s = <<>> THEN NoFloat
    ELSE readFloatBase(s, Head(s) = "-", IF Head(s) \in {"+", "-"} THEN 2 ELSE 1)

\* natural numbers of any size: decimal digit values, the lowest first, no
\* zero at the high end, no digit for zero
RECURSIVE SmallDigits(_)
SmallDigits(c) == IF c = 0 THEN <<>> ELSE <<c % 10>> \o SmallDigits(c \div 10)

\* n without the zeros at its high end
TrimHigh(n) ==
    IF \A k \in 1..Len(n) : n[k] = 0 THEN <<>>
    ELSE SubSeq(n, 1, CHOOSE k \in 1..Len(n) :
                        n[k] # 0 /\ \A j \in (k + 1)..Len(n) : n[j] = 0)

\* the digits lo of the low half and hi of the high half of a number, with
\* the carry out of the high half
Halves(lo, hi) == [d |-> lo.d \o hi.d, c |-> hi.c]

\* the digits of n * k + c at the places of n, and the carry out of them
RECURSIVE MulPart(_, _, _)
RECURSIVE MulHigh(_, _, _)
MulPart(n, k, c) ==
    IF n = <<>> THEN [d |-> <<>>, c |-> c]
    ELSE IF Len(n) = 1
         THEN [d |-> <<(n[1] * k + c) % 10>>, c |-> (n[1] * k + c) \div 10]
    ELSE MulHigh(n, k, MulPart(SubSeq(n, 1, Len(n) \div 2), k, c))

\* lo is MulPart of the low half of n
MulHigh(n, k, lo) == Halves(lo, MulPart(SubSeq(n, Len(n) \div 2 + 1, Len(n)), k, lo.c))

\* the digits d, then the digits of the carry c
WithCarry(r) == r.d \o SmallDigits(r.c)

\* n * k + c for k below 2^28
MulAdd(n, k, c) == IF k = 0 THEN SmallDigits(c) ELSE WithCarry(MulPart(n, k, c))

\* how many of the factors of k^times are multiplied first: the whole steps
\* are halved, then the factors that are left
MulFirst(times, step) ==
    IF times < step THEN times \div 2
    ELSE IF ((times \div step) \div 2 + 1) * step >= times THEN step
    ELSE ((times \div step) \div 2 + 1) * step

\* n * k^times, kstep being k^step
RECURSIVE MulPow(_, _, _, _, _)
MulPow(n, k, times, step, kstep) ==
    IF times <= 0 \/ n = <<>> THEN n
    ELSE IF times = 1 \/ times = step
         THEN MulAdd(n, IF times = 1 THEN k ELSE kstep, 0)
    ELSE MulPow(MulPow(n, k, MulFirst(times, step), step, kstep), k,
                times - MulFirst(times, step), step, kstep)

\* 2^27 and 5^11
MulPow2(n, times) == MulPow(n, 2, times, 27, 134217728)
MulPow5(n, times) == MulPow(n, 5, times, 11, 48828125)

\* n * 10^times
MulPow10(n, times) ==
    IF n = <<>> \/ times <= 0 THEN n ELSE [k \in 1..times |-> 0] \o n

\* a < b and a <= b
Less(a, b) ==
    \/ Len(a) < Len(b)
    \/ /\ Len(a) = Len(b)
       /\ \E k \in 1..Len(a) :
             a[k] < b[k] /\ \A j \in (k + 1)..Len(a) : a[j] = b[j]

Leq(a, b) == a = b \/ Less(a, b)

\* the digits of a - b - c at the places of a, and the borrow out of them, for
\* a and b of one length
RECURSIVE SubPart(_, _, _)
RECURSIVE SubHigh(_, _, _)
SubPart(a, b, c) ==
    IF a = <<>> THEN [d |-> <<>>, c |-> c]
    ELSE IF Len(a) = 1
         THEN [d |-> <<((a[1] - b[1]) - c + 10) % 10>>,
               c |-> IF (a[1] - b[1]) - c < 0 THEN 1 ELSE 0]
    ELSE SubHigh(a, b, SubPart(SubSeq(a, 1, Len(a) \div 2), SubSeq(b, 1, Len(a) \div 2), c))

\* lo is SubPart of the low halves of a and b
SubHigh(a, b, lo) ==
    Halves(lo, SubPart(SubSeq(a, Len(a) \div 2 + 1, Len(a)),
                       SubSeq(b, Len(a) \div 2 + 1, Len(b)), lo.c))

\* a - b for b <= a
Sub(a, b) == TrimHigh(SubPart(a, b \o [k \in 1..(Len(a) - Len(b)) |-> 0], 0).d)

\* the digits of a + b + c at the places of a, and the carry out of them, for
\* a and b of one length
RECURSIVE AddPart(_, _, _)
RECURSIVE AddHigh(_, _, _)
AddPart(a, b, c) ==
    IF a = <<>> THEN [d |-> <<>>, c |-> c]
    ELSE IF Len(a) = 1
         THEN [d |-> <<(a[1] + b[1] + c) % 10>>, c |-> (a[1] + b[1] + c) \div 10]
    ELSE AddHigh(a, b, AddPart(SubSeq(a, 1, Len(a) \div 2), SubSeq(b, 1, Len(a) \div 2), c))

\* lo is AddPart of the low halves of a and b
AddHigh(a, b, lo) ==
    Halves(lo, AddPart(SubSeq(a, Len(a) \div 2 + 1, Len(a)),
                       SubSeq(b, Len(a) \div 2 + 1, Len(b)), lo.c))

\* a + b for Len(b) <= Len(a)
AddTo(a, b) == WithCarry(AddPart(a, b \o [k \in 1..(Len(a) - Len(b)) |-> 0], 0))

\* a + b
Add(a, b) == IF Len(b) <= Len(a) THEN AddTo(a, b) ELSE AddTo(b, a)

\* a * b
RECURSIVE Mul(_, _)
Mul(a, b) ==
    IF a = <<>> \/ b = <<>> THEN <<>>
    ELSE Add(MulAdd(a, b[1], 0), MulPow10(Mul(a, Tail(b)), 1))

\* the highest digit d, from the digit given down, with bp * d <= r
RECURSIVE QuotientDigit(_, _, _)
QuotientDigit(bp, r, d) ==
    IF d = 0 \/ Leq(MulAdd(bp, d, 0), r) THEN d ELSE QuotientDigit(bp, r, d - 1)

\* the quotient and the remainder of a by b, the quotient below 10^(p + 1);
\* each remainder is computed before the next digit is looked for
RECURSIVE DivLoop(_, _, _, _)
RECURSIVE DivDigit(_, _, _, _, _)
DivLoop(r, b, p, q) ==
    IF p < 0 THEN [q |-> TrimHigh(q), r |-> r]
    ELSE DivDigit(r, b, p, q, QuotientDigit(MulPow10(b, p), r, 9))

\* d is the digit of the quotient at 10^p; the digit 0 leaves r as it is
DivDigit(r, b, p, q, d) ==
    IF d = 0 THEN DivLoop(r, b, p - 1, <<0>> \o q)
    ELSE DivLoop(Sub(r, MulAdd(MulPow10(b, p), d, 0)), b, p - 1, <<d>> \o q)

\* the number of the hexadecimal digit values vals, the highest first
RECURSIVE FromHex(_)
FromHex(vals) ==
    IF vals = <<>> THEN <<>>
    ELSE IF Len(vals) = 1 THEN SmallDigits(vals[1])
    ELSE Add(MulPow2(FromHex(SubSeq(vals, 1, Len(vals) \div 2)),
                     4 * (Len(vals) - Len(vals) \div 2)),
             FromHex(SubSeq(vals, Len(vals) \div 2 + 1, Len(vals))))

Reverse(s) == [k \in 1..Len(s) |-> s[Len(s) + 1 - k]]

\* the float of the natural number n, not zero, times 10^(exp + z), z zeros
\* standing at the low end of n
DecimalFrom(neg, n, exp, z) ==
    Finite(neg, [k \in 1..(Len(n) - z) |-> Digits[n[Len(n) + 1 - k] + 1]], exp + z)

\* the float of the natural number n times 10^exp
Decimal(neg, n, exp) ==
    IF n = <<>> THEN Zero(neg)
    ELSE DecimalFrom(neg, n, exp,
             (CHOOSE k \in 1..Len(n) : n[k] # 0 /\ \A j \in 1..(k - 1) : n[j] = 0) - 1)

\* the number of the binary digits of a number of 1 to 10^9 - 1
RECURSIVE BitLen(_)
BitLen(x) == IF x = 0 THEN 0 ELSE 1 + BitLen(x \div 2)

\* the number of at most nine digits x
RECURSIVE Small(_)
Small(x) == IF x = <<>> THEN 0 ELSE x[1] + 10 * Small(Tail(x))

\* the nine digits at the high end of x, x of fewer digits with zeros after it
Lead(x) ==
    Small(SubSeq(MulPow10(x, 9 - Len(x)), IF Len(x) < 9 THEN 1 ELSE Len(x) - 8,
                 IF Len(x) < 9 THEN 9 ELSE Len(x)))

\* 2^53
TwoTo53 == <<2, 9, 9, 0, 4, 7, 4, 5, 2, 9, 9, 1, 7, 0, 0, 9>>

\* x * 2^g for g above zero, x for any other g
Shift(x, g) == MulPow2(x, IF g > 0 THEN g ELSE 0)

\* floor(log2(n / d)): the highest g, from the g given down, with
\* 2^g <= n / d
RECURSIVE Log2(_, _, _)
Log2(n, d, g) ==
    IF Leq(Shift(d, g), Shift(n, 0 - g)) THEN g ELSE Log2(n, d, g - 1)

\* the mantissa q at the exponent e as a float64
Scaled(neg, q, e) ==
    IF e = 971 /\ q = TwoTo53 THEN [ok |-> FALSE, num |-> Inf(neg)]
    ELSE IF e >= 0 THEN [ok |-> TRUE, num |-> Decimal(neg, MulPow2(q, e), 0)]
    ELSE [ok |-> TRUE, num |-> Decimal(neg, MulPow5(q, 0 - e), e)]

\* the quotient qr.q of a division by b with the remainder qr.r, rounded to
\* the nearest, ties to even
Nearest(b, qr, twice) ==
    IF Less(b, twice) \/ (twice = b /\ qr.q # <<>> /\ qr.q[1] % 2 = 1)
    THEN MulAdd(qr.q, 1, 1)
    ELSE qr.q

Rounded(b, qr) == Nearest(b, qr, MulAdd(qr.r, 2, 0))

\* n / d as a mantissa at the exponent e
RoundAt(neg, n, d, e) ==
    Scaled(neg, Rounded(Shift(d, e), DivLoop(Shift(n, 0 - e), Shift(d, e), 15, <<>>)), e)

\* the float64 nearest to n / d (n and d natural numbers, d not zero), ties to
\* the even mantissa: out of range, zero, or q * 2^e with q below 2^53 + 1;
\* f is floor(log2(n / d)), looked for from three above the logarithm that
\* the leading digits give
RoundLog(neg, n, d, f) ==
    IF f > 1023 THEN [ok |-> FALSE, num |-> Inf(neg)]
    ELSE RoundAt(neg, n, d, IF f - 52 < 0 - 1074 THEN 0 - 1074 ELSE f - 52)

Round64(neg, n, d) ==
    IF n = <<>> THEN [ok |-> TRUE, num |-> Zero(neg)]
    ELSE RoundLog(neg, n, d,
             Log2(n, d, (BitLen(Lead(n)) - BitLen(Lead(d)))
                        + (((Len(n) - Len(d)) * 33219) \div 10000) + 3))

\* n is 5^times times a natural number
RECURSIVE DividesPow5(_, _)
DividesPow5(n, times) ==
    IF times <= 0 THEN TRUE
    ELSE IF n = <<>> \/ n[1] \notin {0, 5} THEN FALSE
    ELSE DividesPow5(Tail(MulAdd(n, 2, 0)), times - 1)

\* the number n * 10^exp, or n * 2^exp after hexadecimal digits, as the
\* quotient of two natural numbers
Quotient(n, hex, exp) ==
    IF hex THEN [n |-> Shift(n, exp), d |-> Shift(<<1>>, 0 - exp)]
    ELSE [n |-> MulPow10(n, exp), d |-> MulPow10(<<1>>, 0 - exp)]

RoundQuotient(neg, x) == Round64(neg, x.n, x.d)

\* the natural number n times 10^exp as a float64, nd digits read; a number
\* of at most 15 digits that is an integer or a binary fraction is a float64
\* as it stands. After hexadecimal digits, n times 2^exp.
FloatOf(neg, n, hex, nd, exp) ==
    IF n = <<>> THEN [ok |-> TRUE, num |-> Zero(neg)]
    ELSE IF /\ ~hex
            /\ \/ exp >= 0 /\ Len(n) + exp <= 15
               \/ exp < 0 /\ exp >= 0 - 15 /\ Len(n) <= 15 /\ DividesPow5(n, 0 - exp)
         THEN [ok |-> TRUE, num |-> Decimal(neg, n, exp)]
    ELSE IF (IF hex THEN 4 * nd + exp > 1030 ELSE Len(n) + exp > 310)
         THEN [ok |-> FALSE, num |-> Inf(neg)]
    ELSE IF (IF hex THEN 4 * nd + exp < 0 - 1080 ELSE Len(n) + exp < 0 - 326)
         THEN [ok |-> TRUE, num |-> Zero(neg)]
    ELSE RoundQuotient(neg, Quotient(n, hex, exp))

\* the decimal number vals * 10^exp (digit values, the highest first) as a
\* float64
DecimalFloat(neg, vals, exp) == FloatOf(neg, TrimHigh(Reverse(vals)), FALSE, Len(vals), exp)

\* the hexadecimal number vals * 2^e2 (digit values, the highest first) as a
\* float64
HexFloat(neg, vals, e2) == FloatOf(neg, FromHex(vals), TRUE, Len(vals), e2)

\* the digits of the mantissa that readFloat keeps (maxMantDigits) and the
\* digits that a decimal holds (len(decimal.d))
maxMantDigits == 19
decimalDigits == 800

\* the natural number of the digit values vals, the highest first
Natural(vals) == TrimHigh(Reverse(vals))

\* one of the digit values vals[from..] is not zero
Truncated(vals, from) == \E k \in from..Len(vals) : vals[k] # 0

\* the quotient q and the remainder r of x by b, b not zero: the quotient has
\* at most one digit more than x has more than b
DivBy(x, b) == DivLoop(x, b, Len(x) - Len(b), <<>>)

\* the quotient q and the remainder r of x by 2^k
DivPow2(x, k) == DivBy(x, MulPow2(<<1>>, k))

\* the number of the binary digits of x
Len2(x) == IF x = <<>> THEN 0 ELSE Log2(x, <<1>>, 4 * Len(x)) + 1

\* detailedPowersOfTen[e - detailedPowersOfTenMinExp10]: the 128 binary
\* digits at the high end of 10^e, rounded down, e from -348 to 347; l is
\* floor(log2(10^e)), the table's (217706 * e) >> 16
powerOfTen(e, l) ==
    IF e < 0 THEN DivBy(MulPow2(<<1>>, 127 - l), MulPow10(<<1>>, 0 - e)).q
    ELSE IF l <= 127 THEN MulPow2(MulPow10(<<1>>, e), 127 - l)
    ELSE DivPow2(MulPow10(<<1>>, e), l - 127).q

detailedPowersOfTen(e) == powerOfTen(e, (217706 * e) \div 65536)

\* what eiselLemire64 returns: ok, and the float64 as its mantissa of 53
\* binary digits and its biased exponent
NoEisel == [ok |-> FALSE, mant |-> <<>>, exp2 |-> 0]

\* eiselLemire64 from "retMantissa += retMantissa & 1" on: the mantissa is
\* rounded from 54 binary digits to 53, and an exponent that a normal float64
\* does not have is left to the decimal
eiselRounded(m, retExp2) ==
    IF Len2(m) > 53
    THEN (IF retExp2 + 1 <= 0 \/ retExp2 + 1 >= 2047 THEN NoEisel
          ELSE [ok |-> TRUE, mant |-> DivPow2(m, 1).q, exp2 |-> retExp2 + 1])
    ELSE IF retExp2 <= 0 \/ retExp2 >= 2047 THEN NoEisel
    ELSE [ok |-> TRUE, mant |-> m, exp2 |-> retExp2]

\* eiselLemire64 after the product xHi, xLo: retMantissa is xHi without its
\* low msb + 9 binary digits; a product that is half-way between two
\* mantissas is left to the decimal
eiselMantissa(xHi, xLo, retMantissa, retExp2) ==
    IF xLo = <<>> /\ DivPow2(xHi, 9).r = <<>> /\ Small(DivPow2(retMantissa, 2).r) = 1
    THEN NoEisel
    ELSE eiselRounded(DivPow2(Add(retMantissa, DivPow2(retMantissa, 1).r), 1).q, retExp2)

eiselShift(xHi, xLo, msb, retExp2) ==
    eiselMantissa(xHi, xLo, DivPow2(xHi, msb + 9).q, retExp2 - (1 - msb))

\* x is the product as its halves of 64 binary digits (q the high one)
eiselProduct(x, retExp2) == eiselShift(x.q, x.r, IF Len2(x.q) = 64 THEN 1 ELSE 0, retExp2)

\* the wider approximation: merged is the product of man and the high half of
\* the power, plus the high half of y, the product of man and the low half
eiselMerged(man, merged, y, retExp2) ==
    IF /\ Small(DivPow2(merged.q, 9).r) = 511
       /\ Add(merged.r, <<1>>) = MulPow2(<<1>>, 64)
       /\ Len2(Add(y.r, man)) > 64
    THEN NoEisel
    ELSE eiselProduct(merged, retExp2)

\* man has 64 binary digits, pow is the power of ten as its two halves, x the
\* product of man and the high half as its two halves
eiselWider(man, pow, x, retExp2) ==
    IF Small(DivPow2(x.q, 9).r) = 511 /\ Len2(Add(x.r, man)) > 64
    THEN eiselMerged(man, DivPow2(Add(Mul(man, pow.q), DivPow2(Mul(man, pow.r), 64).q), 64),
                     DivPow2(Mul(man, pow.r), 64), retExp2)
    ELSE eiselProduct(x, retExp2)

eiselPower(man, pow, retExp2) == eiselWider(man, pow, DivPow2(Mul(man, pow.q), 64), retExp2)

\* man has clz zeros before its binary digits in a word of 64
eiselNormal(man, exp10, clz) ==
    eiselPower(MulPow2(man, clz), DivPow2(detailedPowersOfTen(exp10), 64),
               ((217706 * exp10) \div 65536 + 64 + 1023) - clz)

\* eiselLemire64(man, exp10) for a mantissa that is not zero
eiselLemire64(man, exp10) ==
    IF exp10 < 0 - 348 \/ exp10 > 347 THEN NoEisel
    ELSE eiselNormal(man, exp10, 64 - Len2(man))

\* decimal.set and floatBits for more than 800 digits before the point: the
\* decimal holds the first 800 digits with the point after them, and, for
\* the digits it has not room for, only whether one of them is not zero,
\* which lifts the number above a tie
decimalFloat800(neg, vals, e) ==
    IF Truncated(vals, decimalDigits + 1)
    THEN DecimalFloat(neg, Append(SubSeq(vals, 1, decimalDigits), 1), e - 1)
    ELSE DecimalFloat(neg, SubSeq(vals, 1, decimalDigits), e)

\* atof64 after eiselLemire64 of the mantissa (f) and of the mantissa plus
\* one (fUp): f is the number when no digit was cut off the mantissa or fUp
\* is the same float64, else the decimal gives it
atof64Eisel(r, trunc, f, fUp) ==
    IF f.ok /\ (~trunc \/ fUp = f)
    THEN Scaled(r.neg, f.mant, f.exp2 - 1075)
    ELSE decimalFloat800(r.neg, r.digits, r.e)

\* atof64 for a decimal text of more than 800 digits before the point: the
\* mantissa of 19 digits is too long for atof64exact
atof64Mantissa(r, man, exp10, trunc) ==
    atof64Eisel(r, trunc, eiselLemire64(man, exp10),
                IF trunc THEN eiselLemire64(Add(man, <<1>>), exp10) ELSE NoEisel)

atof64Long(r) ==
    atof64Mantissa(r, Natural(SubSeq(r.digits, 1, maxMantDigits)),
                   (r.dp + r.e) - maxMantDigits, Truncated(r.digits, maxMantDigits + 1))

\* ParseFloat after special (sp) and readFloat (r) have read s
ParseFloatRead(s, sp, r) ==
    IF sp.ok
    THEN (IF sp.n = Len(s) THEN [ok |-> TRUE, num |-> sp.f]
          ELSE [ok |-> FALSE, num |-> Zero(FALSE)])
    ELSE IF ~r.ok \/ r.i <= Len(s) THEN [ok |-> FALSE, num |-> Zero(FALSE)]
    ELSE IF r.hex THEN HexFloat(r.neg, r.digits, 4 * (r.dp - r.nd) + r.e)
    ELSE IF r.dp > decimalDigits THEN atof64Long(r)
    ELSE DecimalFloat(r.neg, r.digits, (r.dp - r.nd) + r.e)

\* strconv.ParseFloat(s, 64): ok is err == nil, num the float64
ParseFloat(s) == ParseFloatRead(s, special(s), readFloat(s))

-----------------------------------------------------------------------------
(* regexp.MatchString(pattern, s): regexp/syntax.Parse with the Perl flags *)
(* and an unanchored match. The parser is the stack machine of             *)
(* regexp/syntax: it keeps the expressions in a heap, reuses the places it *)
(* frees, joins literals, factors alternations and checks the nesting      *)
(* depth, the size and the number of runes as it goes. The characters are  *)
(* compared by their code points. The tables of package unicode (the       *)
(* categories, the scripts and the simple case folding) are those of       *)
(* Unicode 15.0.0. A class is kept as the set of its ranges, cleaned.      *)

\* the characters U+0020..U+005F and U+0061..U+007E
Printable ==
    <<" ", "!", "\"", "#", "$", "%", "&", "'", "(", ")", "*", "+", ",", "-", ".", "/",
      "0", "1", "2", "3", "4", "5", "6", "7", "8", "9", ":", ";", "<", "=", ">", "?",
      "@", "A", "B", "C", "D", "E", "F", "G", "H", "I", "J", "K", "L", "M", "N", "O",
      "P", "Q", "R", "S", "T", "U", "V", "W", "X", "Y", "Z", "[", "\\", "]", "^", "_",
      "a", "b", "c", "d", "e", "f", "g", "h", "i", "j", "k", "l", "m", "n", "o",
      "p", "q", "r", "s", "t", "u", "v", "w", "x", "y", "z", "{", "|", "}", "~">>

\* the first k with s[k] = c from i on, 0 when there is none
IndexFrom(s, i, c) ==
    IF \E k \in i..Len(s) : s[k] = c
    THEN CHOOSE k \in i..Len(s) : s[k] = c /\ \A j \in i..(k - 1) : s[j] # c
    ELSE 0

\* the code point that the digits c[k..] of "U+XXXX" write after the value v
RECURSIVE TokenRune(_, _, _)
TokenRune(c, k, v) ==
    IF k > Len(c) THEN v
    ELSE TokenRune(c, k + 1, v * 16 + HexVal(SubSeq(c, k, k)))

\* c is "U+" and four to six hexadecimal digits
IsToken(c) ==
    /\ Len(c) \in 6..8
    /\ SubSeq(c, 1, 2) = "U+"
    /\ \A k \in 3..Len(c) : IsHex(SubSeq(c, k, k))

\* the code point of the character c at the place at of Printable, or of one
\* that is not there
CodeAt(c, at) ==
    IF at > 64 THEN 32 + at
    ELSE IF at > 0 THEN 31 + at
    ELSE CASE c = "\t" -> 9
           [] c = "\n" -> 10
           [] c = VT -> 11
           [] c = "\f" -> 12
           [] c = "\r" -> 13
           [] c = NEL -> 133
           [] c = NBSP -> 160
           [] OTHER -> IF IsToken(c) THEN TokenRune(c, 3, 0) ELSE 65533

\* the code point of a character
Code(c) == CodeAt(c, IndexFrom(Printable, 1, c))

MaxRune == 1114111

\* a class item: the code points of the ranges, or all the others
Item(ranges, neg) == [ranges |-> ranges, neg |-> neg]

\* the Perl classes \d \s \w, the POSIX classes and the Unicode classes
PerlClass(c) ==
    CASE c = "d" -> {<<48, 57>>}
      [] c = "s" -> {<<9, 10>>, <<12, 13>>, <<32, 32>>}
      [] c = "w" -> {<<48, 57>>, <<65, 90>>, <<95, 95>>, <<97, 122>>}

PosixNames ==
    {<<"a", "l", "n", "u", "m">>, <<"a", "l", "p", "h", "a">>, <<"a", "s", "c", "i", "i">>,
     <<"b", "l", "a", "n", "k">>, <<"c", "n", "t", "r", "l">>, <<"d", "i", "g", "i", "t">>,
     <<"g", "r", "a", "p", "h">>, <<"l", "o", "w", "e", "r">>, <<"p", "r", "i", "n", "t">>,
     <<"p", "u", "n", "c", "t">>, <<"s", "p", "a", "c", "e">>, <<"u", "p", "p", "e", "r">>,
     <<"w", "o", "r", "d">>, <<"x", "d", "i", "g", "i", "t">>}

PosixClass(name) ==
    CASE name = <<"a", "l", "n", "u", "m">> -> {<<48, 57>>, <<65, 90>>, <<97, 122>>}
      [] name = <<"a", "l", "p", "h", "a">> -> {<<65, 90>>, <<97, 122>>}
      [] name = <<"a", "s", "c", "i", "i">> -> {<<0, 127>>}
      [] name = <<"b", "l", "a", "n", "k">> -> {<<9, 9>>, <<32, 32>>}
      [] name = <<"c", "n", "t", "r", "l">> -> {<<0, 31>>, <<127, 127>>}
      [] name = <<"d", "i", "g", "i", "t">> -> {<<48, 57>>}
      [] name = <<"g", "r", "a", "p", "h">> -> {<<33, 126>>}
      [] name = <<"l", "o", "w", "e", "r">> -> {<<97, 122>>}
      [] name = <<"p", "r", "i", "n", "t">> -> {<<32, 126>>}
      [] name = <<"p", "u", "n", "c", "t">> -> {<<33, 47>>, <<58, 64>>, <<91, 96>>, <<123, 126>>}
      [] name = <<"s", "p", "a", "c", "e">> -> {<<9, 13>>, <<32, 32>>}
      [] name = <<"u", "p", "p", "e", "r">> -> {<<65, 90>>}
      [] name = <<"w", "o", "r", "d">> -> {<<48, 57>>, <<65, 90>>, <<95, 95>>, <<97, 122>>}
      [] name = <<"x", "d", "i", "g", "i", "t">> -> {<<48, 57>>, <<65, 70>>, <<97, 102>>}

\* unicode.Categories of two letters (Unicode 15.0.0): the ranges <<lo, hi>> of
\* the code points of each general category
UnicodeCategories ==
    [Cc |->
         {<<0, 31>>, <<127, 159>>},
     Cf |->
         {<<173, 173>>, <<1536, 1541>>, <<1564, 1564>>, <<1757, 1757>>, <<1807, 1807>>,
         <<2192, 2193>>, <<2274, 2274>>, <<6158, 6158>>, <<8203, 8207>>, <<8234, 8238>>,
         <<8288, 8292>>, <<8294, 8303>>, <<65279, 65279>>, <<65529, 65531>>, <<69821, 69821>>,
         <<69837, 69837>>, <<78896, 78911>>, <<113824, 113827>>, <<119155, 119162>>,
         <<917505, 917505>>, <<917536, 917631>>},
     Co |->
         {<<57344, 63743>>, <<983040, 1048573>>, <<1048576, 1114109>>},
     Cs |->
         {<<55296, 57343>>},
     Ll |->
         {<<97, 122>>, <<181, 181>>, <<223, 246>>, <<248, 255>>, <<257, 257>>, <<259, 259>>,
         <<261, 261>>, <<263, 263>>, <<265, 265>>, <<267, 267>>, <<269, 269>>, <<271, 271>>,
         <<273, 273>>, <<275, 275>>, <<277, 277>>, <<279, 279>>, <<281, 281>>, <<283, 283>>,
         <<285, 285>>, <<287, 287>>, <<289, 289>>, <<291, 291>>, <<293, 293>>, <<295, 295>>,
         <<297, 297>>, <<299, 299>>, <<301, 301>>, <<303, 303>>, <<305, 305>>, <<307, 307>>,
         <<309, 309>>, <<311, 312>>, <<314, 314>>, <<316, 316>>, <<318, 318>>, <<320, 320>>,
         <<322, 322>>, <<324, 324>>, <<326, 326>>, <<328, 329>>, <<331, 331>>, <<333, 333>>,
         <<335, 335>>, <<337, 337>>, <<339, 339>>, <<341, 341>>, <<343, 343>>, <<345, 345>>,
         <<347, 347>>, <<349, 349>>, <<351, 351>>, <<353, 353>>, <<355, 355>>, <<357, 357>>,
         <<359, 359>>, <<361, 361>>, <<363, 363>>, <<365, 365>>, <<367, 367>>, <<369, 369>>,
         <<371, 371>>, <<373, 373>>, <<375, 375>>, <<378, 378>>, <<380, 380>>, <<382, 384>>,
         <<387, 387>>, <<389, 389>>, <<392, 392>>, <<396, 397>>, <<402, 402>>, <<405, 405>>,
         <<409, 411>>, <<414, 414>>, <<417, 417>>, <<419, 419>>, <<421, 421>>, <<424, 424>>,
         <<426, 427>>, <<429, 429>>, <<432, 432>>, <<436, 436>>, <<438, 438>>, <<441, 442>>,
         <<445, 447>>, <<454, 454>>, <<457, 457>>, <<460, 460>>, <<462, 462>>, <<464, 464>>,
         <<466, 466>>, <<468, 468>>, <<470, 470>>, <<472, 472>>, <<474, 474>>, <<476, 477>>,
         <<479, 479>>, <<481, 481>>, <<483, 483>>, <<485, 485>>, <<487, 487>>, <<489, 489>>,
         <<491, 491>>, <<493, 493>>, <<495, 496>>, <<499, 499>>, <<501, 501>>, <<505, 505>>,
         <<507, 507>>, <<509, 509>>, <<511, 511>>, <<513, 513>>, <<515, 515>>, <<517, 517>>,
         <<519, 519>>, <<521, 521>>, <<523, 523>>, <<525, 525>>, <<527, 527>>, <<529, 529>>,
         <<531, 531>>, <<533, 533>>, <<535, 535>>, <<537, 537>>, <<539, 539>>, <<541, 541>>,
         <<543, 543>>, <<545, 545>>, <<547, 547>>, <<549, 549>>, <<551, 551>>, <<553, 553>>,
         <<555, 555>>, <<557, 557>>, <<559, 559>>, <<561, 561>>, <<563, 569>>, <<572, 572>>,
         <<575, 576>>, <<578, 578>>, <<583, 583>>, <<585, 585>>, <<587, 587>>, <<589, 589>>,
         <<591, 659>>, <<661, 687>>, <<881, 881>>, <<883, 883>>, <<887, 887>>, <<891, 893>>,
         <<912, 912>>, <<940, 974>>, <<976, 977>>, <<981, 983>>, <<985, 985>>, <<987, 987>>,
         <<989, 989>>, <<991, 991>>, <<993, 993>>, <<995, 995>>, <<997, 997>>, <<999, 999>>,
         <<1001, 1001>>, <<1003, 1003>>, <<1005, 1005>>, <<1007, 1011>>, <<1013, 1013>>,
         <<1016, 1016>>, <<1019, 1020>>, <<1072, 1119>>, <<1121, 1121>>, <<1123, 1123>>,
         <<1125, 1125>>, <<1127, 1127>>, <<1129, 1129>>, <<1131, 1131>>, <<1133, 1133>>,
         <<1135, 1135>>, <<1137, 1137>>, <<1139, 1139>>, <<1141, 1141>>, <<1143, 1143>>,
         <<1145, 1145>>, <<1147, 1147>>, <<1149, 1149>>, <<1151, 1151>>, <<1153, 1153>>,
         <<1163, 1163>>, <<1165, 1165>>, <<1167, 1167>>, <<1169, 1169>>, <<1171, 1171>>,
         <<1173, 1173>>, <<1175, 1175>>, <<1177, 1177>>, <<1179, 1179>>, <<1181, 1181>>,
         <<1183, 1183>>, <<1185, 1185>>, <<1187, 1187>>, <<1189, 1189>>, <<1191, 1191>>,
         <<1193, 1193>>, <<1195, 1195>>, <<1197, 1197>>, <<1199, 1199>>, <<1201, 1201>>,
         <<1203, 1203>>, <<1205, 1205>>, <<1207, 1207>>, <<1209, 1209>>, <<1211, 1211>>,
         <<1213, 1213>>, <<1215, 1215>>, <<1218, 1218>>, <<1220, 1220>>, <<1222, 1222>>,
         <<1224, 1224>>, <<1226, 1226>>, <<1228, 1228>>, <<1230, 1231>>, <<1233, 1233>>,
         <<1235, 1235>>, <<1237, 1237>>, <<1239, 1239>>, <<1241, 1241>>, <<1243, 1243>>,
         <<1245, 1245>>, <<1247, 1247>>, <<1249, 1249>>, <<1251, 1251>>, <<1253, 1253>>,
         <<1255, 1255>>, <<1257, 1257>>, <<1259, 1259>>, <<1261, 1261>>, <<1263, 1263>>,
         <<1265, 1265>>, <<1267, 1267>>, <<1269, 1269>>, <<1271, 1271>>, <<1273, 1273>>,
         <<1275, 1275>>, <<1277, 1277>>, <<1279, 1279>>, <<1281, 1281>>, <<1283, 1283>>,
         <<1285, 1285>>, <<1287, 1287>>, <<1289, 1289>>, <<1291, 1291>>, <<1293, 1293>>,
         <<1295, 1295>>, <<1297, 1297>>, <<1299, 1299>>, <<1301, 1301>>, <<1303, 1303>>,
         <<1305, 1305>>, <<1307, 1307>>, <<1309, 1309>>, <<1311, 1311>>, <<1313, 1313>>,
         <<1315, 1315>>, <<1317, 1317>>, <<1319, 1319>>, <<1321, 1321>>, <<1323, 1323>>,
         <<1325, 1325>>, <<1327, 1327>>, <<1376, 1416>>, <<4304, 4346>>, <<4349, 4351>>,
         <<5112, 5117>>, <<7296, 7304>>, <<7424, 7467>>, <<7531, 7543>>, <<7545, 7578>>,
         <<7681, 7681>>, <<7683, 7683>>, <<7685, 7685>>, <<7687, 7687>>, <<7689, 7689>>,
         <<7691, 7691>>, <<7693, 7693>>, <<7695, 7695>>, <<7697, 7697>>, <<7699, 7699>>,
         <<7701, 7701>>, <<7703, 7703>>, <<7705, 7705>>, <<7707, 7707>>, <<7709, 7709>>,
         <<7711, 7711>>, <<7713, 7713>>, <<7715, 7715>>, <<7717, 7717>>, <<7719, 7719>>,
         <<7721, 7721>>, <<7723, 7723>>, <<7725, 7725>>, <<7727, 7727>>, <<7729, 7729>>,
         <<7731, 7731>>, <<7733, 7733>>, <<7735, 7735>>, <<7737, 7737>>, <<7739, 7739>>,
         <<7741, 7741>>, <<7743, 7743>>, <<7745, 7745>>, <<7747, 7747>>, <<7749, 7749>>,
         <<7751, 7751>>, <<7753, 7753>>, <<7755, 7755>>, <<7757, 7757>>, <<7759, 7759>>,
         <<7761, 7761>>, <<7763, 7763>>, <<7765, 7765>>, <<7767, 7767>>, <<7769, 7769>>,
         <<7771, 7771>>, <<7773, 7773>>, <<7775, 7775>>, <<7777, 7777>>, <<7779, 7779>>,
         <<7781, 7781>>, <<7783, 7783>>, <<7785, 7785>>, <<7787, 7787>>, <<7789, 7789>>,
         <<7791, 7791>>, <<7793, 7793>>, <<7795, 7795>>, <<7797, 7797>>, <<7799, 7799>>,
         <<7801, 7801>>, <<7803, 7803>>, <<7805, 7805>>, <<7807, 7807>>, <<7809, 7809>>,
         <<7811, 7811>>, <<7813, 7813>>, <<7815, 7815>>, <<7817, 7817>>, <<7819, 7819>>,
         <<7821, 7821>>, <<7823, 7823>>, <<7825, 7825>>, <<7827, 7827>>, <<7829, 7837>>,
         <<7839, 7839>>, <<7841, 7841>>, <<7843, 7843>>, <<7845, 7845>>, <<7847, 7847>>,
         <<7849, 7849>>, <<7851, 7851>>, <<7853, 7853>>, <<7855, 7855>>, <<7857, 7857>>,
         <<7859, 7859>>, <<7861, 7861>>, <<7863, 7863>>, <<7865, 7865>>, <<7867, 7867>>,
         <<7869, 7869>>, <<7871, 7871>>, <<7873, 7873>>, <<7875, 7875>>, <<7877, 7877>>,
         <<7879, 7879>>, <<7881, 7881>>, <<7883, 7883>>, <<7885, 7885>>, <<7887, 7887>>,
         <<7889, 7889>>, <<7891, 7891>>, <<7893, 7893>>, <<7895, 7895>>, <<7897, 7897>>,
         <<7899, 7899>>, <<7901, 7901>>, <<7903, 7903>>, <<7905, 7905>>, <<7907, 7907>>,
         <<7909, 7909>>, <<7911, 7911>>, <<7913, 7913>>, <<7915, 7915>>, <<7917, 7917>>,
         <<7919, 7919>>, <<7921, 7921>>, <<7923, 7923>>, <<7925, 7925>>, <<7927, 7927>>,
         <<7929, 7929>>, <<7931, 7931>>, <<7933, 7933>>, <<7935, 7943>>, <<7952, 7957>>,
         <<7968, 7975>>, <<7984, 7991>>, <<8000, 8005>>, <<8016, 8023>>, <<8032, 8039>>,
         <<8048, 8061>>, <<8064, 8071>>, <<8080, 8087>>, <<8096, 8103>>, <<8112, 8116>>,
         <<8118, 8119>>, <<8126, 8126>>, <<8130, 8132>>, <<8134, 8135>>, <<8144, 8147>>,
         <<8150, 8151>>, <<8160, 8167>>, <<8178, 8180>>, <<8182, 8183>>, <<8458, 8458>>,
         <<8462, 8463>>, <<8467, 8467>>, <<8495, 8495>>, <<8500, 8500>>, <<8505, 8505>>,
         <<8508, 8509>>, <<8518, 8521>>, <<8526, 8526>>, <<8580, 8580>>, <<11312, 11359>>,
         <<11361, 11361>>, <<11365, 11366>>, <<11368, 11368>>, <<11370, 11370>>,
         <<11372, 11372>>, <<11377, 11377>>, <<11379, 11380>>, <<11382, 11387>>,
         <<11393, 11393>>, <<11395, 11395>>, <<11397, 11397>>, <<11399, 11399>>,
         <<11401, 11401>>, <<11403, 11403>>, <<11405, 11405>>, <<11407, 11407>>,
         <<11409, 11409>>, <<11411, 11411>>, <<11413, 11413>>, <<11415, 11415>>,
         <<11417, 11417>>, <<11419, 11419>>, <<11421, 11421>>, <<11423, 11423>>,
         <<11425, 11425>>, <<11427, 11427>>, <<11429, 11429>>, <<11431, 11431>>,
         <<11433, 11433>>, <<11435, 11435>>, <<11437, 11437>>, <<11439, 11439>>,
         <<11441, 11441>>, <<11443, 11443>>, <<11445, 11445>>, <<11447, 11447>>,
         <<11449, 11449>>, <<11451, 11451>>, <<11453, 11453>>, <<11455, 11455>>,
         <<11457, 11457>>, <<11459, 11459>>, <<11461, 11461>>, <<11463, 11463>>,
         <<11465, 11465>>, <<11467, 11467>>, <<11469, 11469>>, <<11471, 11471>>,
         <<11473, 11473>>, <<11475, 11475>>, <<11477, 11477>>, <<11479, 11479>>,
         <<11481, 11481>>, <<11483, 11483>>, <<11485, 11485>>, <<11487, 11487>>,
         <<11489, 11489>>, <<11491, 11492>>, <<11500, 11500>>, <<11502, 11502>>,
         <<11507, 11507>>, <<11520, 11557>>, <<11559, 11559>>, <<11565, 11565>>,
         <<42561, 42561>>, <<42563, 42563>>, <<42565, 42565>>, <<42567, 42567>>,
         <<42569, 42569>>, <<42571, 42571>>, <<42573, 42573>>, <<42575, 42575>>,
         <<42577, 42577>>, <<42579, 42579>>, <<42581, 42581>>, <<42583, 42583>>,
         <<42585, 42585>>, <<42587, 42587>>, <<42589, 42589>>, <<42591, 42591>>,
         <<42593, 42593>>, <<42595, 42595>>, <<42597, 42597>>, <<42599, 42599>>,
         <<42601, 42601>>, <<42603, 42603>>, <<42605, 42605>>, <<42625, 42625>>,
         <<42627, 42627>>, <<42629, 42629>>, <<42631, 42631>>, <<42633, 42633>>,
         <<42635, 42635>>, <<42637, 42637>>, <<42639, 42639>>, <<42641, 42641>>,
         <<42643, 42643>>, <<42645, 42645>>, <<42647, 42647>>, <<42649, 42649>>,
         <<42651, 42651>>, <<42787, 42787>>, <<42789, 42789>>, <<42791, 42791>>,
         <<42793, 42793>>, <<42795, 42795>>, <<42797, 42797>>, <<42799, 42801>>,
         <<42803, 42803>>, <<42805, 42805>>, <<42807, 42807>>, <<42809, 42809>>,
         <<42811, 42811>>, <<42813, 42813>>, <<42815, 42815>>, <<42817, 42817>>,
         <<42819, 42819>>, <<42821, 42821>>, <<42823, 42823>>, <<42825, 42825>>,
         <<42827, 42827>>, <<42829, 42829>>, <<42831, 42831>>, <<42833, 42833>>,
         <<42835, 42835>>, <<42837, 42837>>, <<42839, 42839>>, <<42841, 42841>>,
         <<42843, 42843>>, <<42845, 42845>>, <<42847, 42847>>, <<42849, 42849>>,
         <<42851, 42851>>, <<42853, 42853>>, <<42855, 42855>>, <<42857, 42857>>,
         <<42859, 42859>>, <<42861, 42861>>, <<42863, 42863>>, <<42865, 42872>>,
         <<42874, 42874>>, <<42876, 42876>>, <<42879, 42879>>, <<42881, 42881>>,
         <<42883, 42883>>, <<42885, 42885>>, <<42887, 42887>>, <<42892, 42892>>,
         <<42894, 42894>>, <<42897, 42897>>, <<42899, 42901>>, <<42903, 42903>>,
         <<42905, 42905>>, <<42907, 42907>>, <<42909, 42909>>, <<42911, 42911>>,
         <<42913, 42913>>, <<42915, 42915>>, <<42917, 42917>>, <<42919, 42919>>,
         <<42921, 42921>>, <<42927, 42927>>, <<42933, 42933>>, <<42935, 42935>>,
         <<42937, 42937>>, <<42939, 42939>>, <<42941, 42941>>, <<42943, 42943>>,
         <<42945, 42945>>, <<42947, 42947>>, <<42952, 42952>>, <<42954, 42954>>,
         <<42961, 42961>>, <<42963, 42963>>, <<42965, 42965>>, <<42967, 42967>>,
         <<42969, 42969>>, <<42998, 42998>>, <<43002, 43002>>, <<43824, 43866>>,
         <<43872, 43880>>, <<43888, 43967>>, <<64256, 64262>>, <<64275, 64279>>,
         <<65345, 65370>>, <<66600, 66639>>, <<66776, 66811>>, <<66967, 66977>>,
         <<66979, 66993>>, <<66995, 67001>>, <<67003, 67004>>, <<68800, 68850>>,
         <<71872, 71903>>, <<93792, 93823>>, <<119834, 119859>>, <<119886, 119892>>,
         <<119894, 119911>>, <<119938, 119963>>, <<119990, 119993>>, <<119995, 119995>>,
         <<119997, 120003>>, <<120005, 120015>>, <<120042, 120067>>, <<120094, 120119>>,
         <<120146, 120171>>, <<120198, 120223>>, <<120250, 120275>>, <<120302, 120327>>,
         <<120354, 120379>>, <<120406, 120431>>, <<120458, 120485>>, <<120514, 120538>>,
         <<120540, 120545>>, <<120572, 120596>>, <<120598, 120603>>, <<120630, 120654>>,
         <<120656, 120661>>, <<120688, 120712>>, <<120714, 120719>>, <<120746, 120770>>,
         <<120772, 120777>>, <<120779, 120779>>, <<122624, 122633>>, <<122635, 122654>>,
         <<122661, 122666>>, <<125218, 125251>>},
     Lm |->
         {<<688, 705>>, <<710, 721>>, <<736, 740>>, <<748, 748>>, <<750, 750>>, <<884, 884>>,
         <<890, 890>>, <<1369, 1369>>, <<1600, 1600>>, <<1765, 1766>>, <<2036, 2037>>,
         <<2042, 2042>>, <<2074, 2074>>, <<2084, 2084>>, <<2088, 2088>>, <<2249, 2249>>,
         <<2417, 2417>>, <<3654, 3654>>, <<3782, 3782>>, <<4348, 4348>>, <<6103, 6103>>,
         <<6211, 6211>>, <<6823, 6823>>, <<7288, 7293>>, <<7468, 7530>>, <<7544, 7544>>,
         <<7579, 7615>>, <<8305, 8305>>, <<8319, 8319>>, <<8336, 8348>>, <<11388, 11389>>,
         <<11631, 11631>>, <<11823, 11823>>, <<12293, 12293>>, <<12337, 12341>>,
         <<12347, 12347>>, <<12445, 12446>>, <<12540, 12542>>, <<40981, 40981>>,
         <<42232, 42237>>, <<42508, 42508>>, <<42623, 42623>>, <<42652, 42653>>,
         <<42775, 42783>>, <<42864, 42864>>, <<42888, 42888>>, <<42994, 42996>>,
         <<43000, 43001>>, <<43471, 43471>>, <<43494, 43494>>, <<43632, 43632>>,
         <<43741, 43741>>, <<43763, 43764>>, <<43868, 43871>>, <<43881, 43881>>,
         <<65392, 65392>>, <<65438, 65439>>, <<67456, 67461>>, <<67463, 67504>>,
         <<67506, 67514>>, <<92992, 92995>>, <<94099, 94111>>, <<94176, 94177>>,
         <<94179, 94179>>, <<110576, 110579>>, <<110581, 110587>>, <<110589, 110590>>,
         <<122928, 122989>>, <<123191, 123197>>, <<124139, 124139>>, <<125259, 125259>>},
     Lo |->
         {<<170, 170>>, <<186, 186>>, <<443, 443>>, <<448, 451>>, <<660, 660>>, <<1488, 1514>>,
         <<1519, 1522>>, <<1568, 1599>>, <<1601, 1610>>, <<1646, 1647>>, <<1649, 1747>>,
         <<1749, 1749>>, <<1774, 1775>>, <<1786, 1788>>, <<1791, 1791>>, <<1808, 1808>>,
         <<1810, 1839>>, <<1869, 1957>>, <<1969, 1969>>, <<1994, 2026>>, <<2048, 2069>>,
         <<2112, 2136>>, <<2144, 2154>>, <<2160, 2183>>, <<2185, 2190>>, <<2208, 2248>>,
         <<2308, 2361>>, <<2365, 2365>>, <<2384, 2384>>, <<2392, 2401>>, <<2418, 2432>>,
         <<2437, 2444>>, <<2447, 2448>>, <<2451, 2472>>, <<2474, 2480>>, <<2482, 2482>>,
         <<2486, 2489>>, <<2493, 2493>>, <<2510, 2510>>, <<2524, 2525>>, <<2527, 2529>>,
         <<2544, 2545>>, <<2556, 2556>>, <<2565, 2570>>, <<2575, 2576>>, <<2579, 2600>>,
         <<2602, 2608>>, <<2610, 2611>>, <<2613, 2614>>, <<2616, 2617>>, <<2649, 2652>>,
         <<2654, 2654>>, <<2674, 2676>>, <<2693, 2701>>, <<2703, 2705>>, <<2707, 2728>>,
         <<2730, 2736>>, <<2738, 2739>>, <<2741, 2745>>, <<2749, 2749>>, <<2768, 2768>>,
         <<2784, 2785>>, <<2809, 2809>>, <<2821, 2828>>, <<2831, 2832>>, <<2835, 2856>>,
         <<2858, 2864>>, <<2866, 2867>>, <<2869, 2873>>, <<2877, 2877>>, <<2908, 2909>>,
         <<2911, 2913>>, <<2929, 2929>>, <<2947, 2947>>, <<2949, 2954>>, <<2958, 2960>>,
         <<2962, 2965>>, <<2969, 2970>>, <<2972, 2972>>, <<2974, 2975>>, <<2979, 2980>>,
         <<2984, 2986>>, <<2990, 3001>>, <<3024, 3024>>, <<3077, 3084>>, <<3086, 3088>>,
         <<3090, 3112>>, <<3114, 3129>>, <<3133, 3133>>, <<3160, 3162>>, <<3165, 3165>>,
         <<3168, 3169>>, <<3200, 3200>>, <<3205, 3212>>, <<3214, 3216>>, <<3218, 3240>>,
         <<3242, 3251>>, <<3253, 3257>>, <<3261, 3261>>, <<3293, 3294>>, <<3296, 3297>>,
         <<3313, 3314>>, <<3332, 3340>>, <<3342, 3344>>, <<3346, 3386>>, <<3389, 3389>>,
         <<3406, 3406>>, <<3412, 3414>>, <<3423, 3425>>, <<3450, 3455>>, <<3461, 3478>>,
         <<3482, 3505>>, <<3507, 3515>>, <<3517, 3517>>, <<3520, 3526>>, <<3585, 3632>>,
         <<3634, 3635>>, <<3648, 3653>>, <<3713, 3714>>, <<3716, 3716>>, <<3718, 3722>>,
         <<3724, 3747>>, <<3749, 3749>>, <<3751, 3760>>, <<3762, 3763>>, <<3773, 3773>>,
         <<3776, 3780>>, <<3804, 3807>>, <<3840, 3840>>, <<3904, 3911>>, <<3913, 3948>>,
         <<3976, 3980>>, <<4096, 4138>>, <<4159, 4159>>, <<4176, 4181>>, <<4186, 4189>>,
         <<4193, 4193>>, <<4197, 4198>>, <<4206, 4208>>, <<4213, 4225>>, <<4238, 4238>>,
         <<4352, 4680>>, <<4682, 4685>>, <<4688, 4694>>, <<4696, 4696>>, <<4698, 4701>>,
         <<4704, 4744>>, <<4746, 4749>>, <<4752, 4784>>, <<4786, 4789>>, <<4792, 4798>>,
         <<4800, 4800>>, <<4802, 4805>>, <<4808, 4822>>, <<4824, 4880>>, <<4882, 4885>>,
         <<4888, 4954>>, <<4992, 5007>>, <<5121, 5740>>, <<5743, 5759>>, <<5761, 5786>>,
         <<5792, 5866>>, <<5873, 5880>>, <<5888, 5905>>, <<5919, 5937>>, <<5952, 5969>>,
         <<5984, 5996>>, <<5998, 6000>>, <<6016, 6067>>, <<6108, 6108>>, <<6176, 6210>>,
         <<6212, 6264>>, <<6272, 6276>>, <<6279, 6312>>, <<6314, 6314>>, <<6320, 6389>>,
         <<6400, 6430>>, <<6480, 6509>>, <<6512, 6516>>, <<6528, 6571>>, <<6576, 6601>>,
         <<6656, 6678>>, <<6688, 6740>>, <<6917, 6963>>, <<6981, 6988>>, <<7043, 7072>>,
         <<7086, 7087>>, <<7098, 7141>>, <<7168, 7203>>, <<7245, 7247>>, <<7258, 7287>>,
         <<7401, 7404>>, <<7406, 7411>>, <<7413, 7414>>, <<7418, 7418>>, <<8501, 8504>>,
         <<11568, 11623>>, <<11648, 11670>>, <<11680, 11686>>, <<11688, 11694>>,
         <<11696, 11702>>, <<11704, 11710>>, <<11712, 11718>>, <<11720, 11726>>,
         <<11728, 11734>>, <<11736, 11742>>, <<12294, 12294>>, <<12348, 12348>>,
         <<12353, 12438>>, <<12447, 12447>>, <<12449, 12538>>, <<12543, 12543>>,
         <<12549, 12591>>, <<12593, 12686>>, <<12704, 12735>>, <<12784, 12799>>,
         <<13312, 19903>>, <<19968, 40980>>, <<40982, 42124>>, <<42192, 42231>>,
         <<42240, 42507>>, <<42512, 42527>>, <<42538, 42539>>, <<42606, 42606>>,
         <<42656, 42725>>, <<42895, 42895>>, <<42999, 42999>>, <<43003, 43009>>,
         <<43011, 43013>>, <<43015, 43018>>, <<43020, 43042>>, <<43072, 43123>>,
         <<43138, 43187>>, <<43250, 43255>>, <<43259, 43259>>, <<43261, 43262>>,
         <<43274, 43301>>, <<43312, 43334>>, <<43360, 43388>>, <<43396, 43442>>,
         <<43488, 43492>>, <<43495, 43503>>, <<43514, 43518>>, <<43520, 43560>>,
         <<43584, 43586>>, <<43588, 43595>>, <<43616, 43631>>, <<43633, 43638>>,
         <<43642, 43642>>, <<43646, 43695>>, <<43697, 43697>>, <<43701, 43702>>,
         <<43705, 43709>>, <<43712, 43712>>, <<43714, 43714>>, <<43739, 43740>>,
         <<43744, 43754>>, <<43762, 43762>>, <<43777, 43782>>, <<43785, 43790>>,
         <<43793, 43798>>, <<43808, 43814>>, <<43816, 43822>>, <<43968, 44002>>,
         <<44032, 55203>>, <<55216, 55238>>, <<55243, 55291>>, <<63744, 64109>>,
         <<64112, 64217>>, <<64285, 64285>>, <<64287, 64296>>, <<64298, 64310>>,
         <<64312, 64316>>, <<64318, 64318>>, <<64320, 64321>>, <<64323, 64324>>,
         <<64326, 64433>>, <<64467, 64829>>, <<64848, 64911>>, <<64914, 64967>>,
         <<65008, 65019>>, <<65136, 65140>>, <<65142, 65276>>, <<65382, 65391>>,
         <<65393, 65437>>, <<65440, 65470>>, <<65474, 65479>>, <<65482, 65487>>,
         <<65490, 65495>>, <<65498, 65500>>, <<65536, 65547>>, <<65549, 65574>>,
         <<65576, 65594>>, <<65596, 65597>>, <<65599, 65613>>, <<65616, 65629>>,
         <<65664, 65786>>, <<66176, 66204>>, <<66208, 66256>>, <<66304, 66335>>,
         <<66349, 66368>>, <<66370, 66377>>, <<66384, 66421>>, <<66432, 66461>>,
         <<66464, 66499>>, <<66504, 66511>>, <<66640, 66717>>, <<66816, 66855>>,
         <<66864, 66915>>, <<67072, 67382>>, <<67392, 67413>>, <<67424, 67431>>,
         <<67584, 67589>>, <<67592, 67592>>, <<67594, 67637>>, <<67639, 67640>>,
         <<67644, 67644>>, <<67647, 67669>>, <<67680, 67702>>, <<67712, 67742>>,
         <<67808, 67826>>, <<67828, 67829>>, <<67840, 67861>>, <<67872, 67897>>,
         <<67968, 68023>>, <<68030, 68031>>, <<68096, 68096>>, <<68112, 68115>>,
         <<68117, 68119>>, <<68121, 68149>>, <<68192, 68220>>, <<68224, 68252>>,
         <<68288, 68295>>, <<68297, 68324>>, <<68352, 68405>>, <<68416, 68437>>,
         <<68448, 68466>>, <<68480, 68497>>, <<68608, 68680>>, <<68864, 68899>>,
         <<69248, 69289>>, <<69296, 69297>>, <<69376, 69404>>, <<69415, 69415>>,
         <<69424, 69445>>, <<69488, 69505>>, <<69552, 69572>>, <<69600, 69622>>,
         <<69635, 69687>>, <<69745, 69746>>, <<69749, 69749>>, <<69763, 69807>>,
         <<69840, 69864>>, <<69891, 69926>>, <<69956, 69956>>, <<69959, 69959>>,
         <<69968, 70002>>, <<70006, 70006>>, <<70019, 70066>>, <<70081, 70084>>,
         <<70106, 70106>>, <<70108, 70108>>, <<70144, 70161>>, <<70163, 70187>>,
         <<70207, 70208>>, <<70272, 70278>>, <<70280, 70280>>, <<70282, 70285>>,
         <<70287, 70301>>, <<70303, 70312>>, <<70320, 70366>>, <<70405, 70412>>,
         <<70415, 70416>>, <<70419, 70440>>, <<70442, 70448>>, <<70450, 70451>>,
         <<70453, 70457>>, <<70461, 70461>>, <<70480, 70480>>, <<70493, 70497>>,
         <<70656, 70708>>, <<70727, 70730>>, <<70751, 70753>>, <<70784, 70831>>,
         <<70852, 70853>>, <<70855, 70855>>, <<71040, 71086>>, <<71128, 71131>>,
         <<71168, 71215>>, <<71236, 71236>>, <<71296, 71338>>, <<71352, 71352>>,
         <<71424, 71450>>, <<71488, 71494>>, <<71680, 71723>>, <<71935, 71942>>,
         <<71945, 71945>>, <<71948, 71955>>, <<71957, 71958>>, <<71960, 71983>>,
         <<71999, 71999>>, <<72001, 72001>>, <<72096, 72103>>, <<72106, 72144>>,
         <<72161, 72161>>, <<72163, 72163>>, <<72192, 72192>>, <<72203, 72242>>,
         <<72250, 72250>>, <<72272, 72272>>, <<72284, 72329>>, <<72349, 72349>>,
         <<72368, 72440>>, <<72704, 72712>>, <<72714, 72750>>, <<72768, 72768>>,
         <<72818, 72847>>, <<72960, 72966>>, <<72968, 72969>>, <<72971, 73008>>,
         <<73030, 73030>>, <<73056, 73061>>, <<73063, 73064>>, <<73066, 73097>>,
         <<73112, 73112>>, <<73440, 73458>>, <<73474, 73474>>, <<73476, 73488>>,
         <<73490, 73523>>, <<73648, 73648>>, <<73728, 74649>>, <<74880, 75075>>,
         <<77712, 77808>>, <<77824, 78895>>, <<78913, 78918>>, <<82944, 83526>>,
         <<92160, 92728>>, <<92736, 92766>>, <<92784, 92862>>, <<92880, 92909>>,
         <<92928, 92975>>, <<93027, 93047>>, <<93053, 93071>>, <<93952, 94026>>,
         <<94032, 94032>>, <<94208, 100343>>, <<100352, 101589>>, <<101632, 101640>>,
         <<110592, 110882>>, <<110898, 110898>>, <<110928, 110930>>, <<110933, 110933>>,
         <<110948, 110951>>, <<110960, 111355>>, <<113664, 113770>>, <<113776, 113788>>,
         <<113792, 113800>>, <<113808, 113817>>, <<122634, 122634>>, <<123136, 123180>>,
         <<123214, 123214>>, <<123536, 123565>>, <<123584, 123627>>, <<124112, 124138>>,
         <<124896, 124902>>, <<124904, 124907>>, <<124909, 124910>>, <<124912, 124926>>,
         <<124928, 125124>>, <<126464, 126467>>, <<126469, 126495>>, <<126497, 126498>>,
         <<126500, 126500>>, <<126503, 126503>>, <<126505, 126514>>, <<126516, 126519>>,
         <<126521, 126521>>, <<126523, 126523>>, <<126530, 126530>>, <<126535, 126535>>,
         <<126537, 126537>>, <<126539, 126539>>, <<126541, 126543>>, <<126545, 126546>>,
         <<126548, 126548>>, <<126551, 126551>>, <<126553, 126553>>, <<126555, 126555>>,
         <<126557, 126557>>, <<126559, 126559>>, <<126561, 126562>>, <<126564, 126564>>,
         <<126567, 126570>>, <<126572, 126578>>, <<126580, 126583>>, <<126585, 126588>>,
         <<126590, 126590>>, <<126592, 126601>>, <<126603, 126619>>, <<126625, 126627>>,
         <<126629, 126633>>, <<126635, 126651>>, <<131072, 173791>>, <<173824, 177977>>,
         <<177984, 178205>>, <<178208, 183969>>, <<183984, 191456>>, <<194560, 195101>>,
         <<196608, 201546>>, <<201552, 205743>>},
     Lt |->
         {<<453, 453>>, <<456, 456>>, <<459, 459>>, <<498, 498>>, <<8072, 8079>>, <<8088, 8095>>,
         <<8104, 8111>>, <<8124, 8124>>, <<8140, 8140>>, <<8188, 8188>>},
     Lu |->
         {<<65, 90>>, <<192, 214>>, <<216, 222>>, <<256, 256>>, <<258, 258>>, <<260, 260>>,
         <<262, 262>>, <<264, 264>>, <<266, 266>>, <<268, 268>>, <<270, 270>>, <<272, 272>>,
         <<274, 274>>, <<276, 276>>, <<278, 278>>, <<280, 280>>, <<282, 282>>, <<284, 284>>,
         <<286, 286>>, <<288, 288>>, <<290, 290>>, <<292, 292>>, <<294, 294>>, <<296, 296>>,
         <<298, 298>>, <<300, 300>>, <<302, 302>>, <<304, 304>>, <<306, 306>>, <<308, 308>>,
         <<310, 310>>, <<313, 313>>, <<315, 315>>, <<317, 317>>, <<319, 319>>, <<321, 321>>,
         <<323, 323>>, <<325, 325>>, <<327, 327>>, <<330, 330>>, <<332, 332>>, <<334, 334>>,
         <<336, 336>>, <<338, 338>>, <<340, 340>>, <<342, 342>>, <<344, 344>>, <<346, 346>>,
         <<348, 348>>, <<350, 350>>, <<352, 352>>, <<354, 354>>, <<356, 356>>, <<358, 358>>,
         <<360, 360>>, <<362, 362>>, <<364, 364>>, <<366, 366>>, <<368, 368>>, <<370, 370>>,
         <<372, 372>>, <<374, 374>>, <<376, 377>>, <<379, 379>>, <<381, 381>>, <<385, 386>>,
         <<388, 388>>, <<390, 391>>, <<393, 395>>, <<398, 401>>, <<403, 404>>, <<406, 408>>,
         <<412, 413>>, <<415, 416>>, <<418, 418>>, <<420, 420>>, <<422, 423>>, <<425, 425>>,
         <<428, 428>>, <<430, 431>>, <<433, 435>>, <<437, 437>>, <<439, 440>>, <<444, 444>>,
         <<452, 452>>, <<455, 455>>, <<458, 458>>, <<461, 461>>, <<463, 463>>, <<465, 465>>,
         <<467, 467>>, <<469, 469>>, <<471, 471>>, <<473, 473>>, <<475, 475>>, <<478, 478>>,
         <<480, 480>>, <<482, 482>>, <<484, 484>>, <<486, 486>>, <<488, 488>>, <<490, 490>>,
         <<492, 492>>, <<494, 494>>, <<497, 497>>, <<500, 500>>, <<502, 504>>, <<506, 506>>,
         <<508, 508>>, <<510, 510>>, <<512, 512>>, <<514, 514>>, <<516, 516>>, <<518, 518>>,
         <<520, 520>>, <<522, 522>>, <<524, 524>>, <<526, 526>>, <<528, 528>>, <<530, 530>>,
         <<532, 532>>, <<534, 534>>, <<536, 536>>, <<538, 538>>, <<540, 540>>, <<542, 542>>,
         <<544, 544>>, <<546, 546>>, <<548, 548>>, <<550, 550>>, <<552, 552>>, <<554, 554>>,
         <<556, 556>>, <<558, 558>>, <<560, 560>>, <<562, 562>>, <<570, 571>>, <<573, 574>>,
         <<577, 577>>, <<579, 582>>, <<584, 584>>, <<586, 586>>, <<588, 588>>, <<590, 590>>,
         <<880, 880>>, <<882, 882>>, <<886, 886>>, <<895, 895>>, <<902, 902>>, <<904, 906>>,
         <<908, 908>>, <<910, 911>>, <<913, 929>>, <<931, 939>>, <<975, 975>>, <<978, 980>>,
         <<984, 984>>, <<986, 986>>, <<988, 988>>, <<990, 990>>, <<992, 992>>, <<994, 994>>,
         <<996, 996>>, <<998, 998>>, <<1000, 1000>>, <<1002, 1002>>, <<1004, 1004>>,
         <<1006, 1006>>, <<1012, 1012>>, <<1015, 1015>>, <<1017, 1018>>, <<1021, 1071>>,
         <<1120, 1120>>, <<1122, 1122>>, <<1124, 1124>>, <<1126, 1126>>, <<1128, 1128>>,
         <<1130, 1130>>, <<1132, 1132>>, <<1134, 1134>>, <<1136, 1136>>, <<1138, 1138>>,
         <<1140, 1140>>, <<1142, 1142>>, <<1144, 1144>>, <<1146, 1146>>, <<1148, 1148>>,
         <<1150, 1150>>, <<1152, 1152>>, <<1162, 1162>>, <<1164, 1164>>, <<1166, 1166>>,
         <<1168, 1168>>, <<1170, 1170>>, <<1172, 1172>>, <<1174, 1174>>, <<1176, 1176>>,
         <<1178, 1178>>, <<1180, 1180>>, <<1182, 1182>>, <<1184, 1184>>, <<1186, 1186>>,
         <<1188, 1188>>, <<1190, 1190>>, <<1192, 1192>>, <<1194, 1194>>, <<1196, 1196>>,
         <<1198, 1198>>, <<1200, 1200>>, <<1202, 1202>>, <<1204, 1204>>, <<1206, 1206>>,
         <<1208, 1208>>, <<1210, 1210>>, <<1212, 1212>>, <<1214, 1214>>, <<1216, 1217>>,
         <<1219, 1219>>, <<1221, 1221>>, <<1223, 1223>>, <<1225, 1225>>, <<1227, 1227>>,
         <<1229, 1229>>, <<1232, 1232>>, <<1234, 1234>>, <<1236, 1236>>, <<1238, 1238>>,
         <<1240, 1240>>, <<1242, 1242>>, <<1244, 1244>>, <<1246, 1246>>, <<1248, 1248>>,
         <<1250, 1250>>, <<1252, 1252>>, <<1254, 1254>>, <<1256, 1256>>, <<1258, 1258>>,
         <<1260, 1260>>, <<1262, 1262>>, <<1264, 1264>>, <<1266, 1266>>, <<1268, 1268>>,
         <<1270, 1270>>, <<1272, 1272>>, <<1274, 1274>>, <<1276, 1276>>, <<1278, 1278>>,
         <<1280, 1280>>, <<1282, 1282>>, <<1284, 1284>>, <<1286, 1286>>, <<1288, 1288>>,
         <<1290, 1290>>, <<1292, 1292>>, <<1294, 1294>>, <<1296, 1296>>, <<1298, 1298>>,
         <<1300, 1300>>, <<1302, 1302>>, <<1304, 1304>>, <<1306, 1306>>, <<1308, 1308>>,
         <<1310, 1310>>, <<1312, 1312>>, <<1314, 1314>>, <<1316, 1316>>, <<1318, 1318>>,
         <<1320, 1320>>, <<1322, 1322>>, <<1324, 1324>>, <<1326, 1326>>, <<1329, 1366>>,
         <<4256, 4293>>, <<4295, 4295>>, <<4301, 4301>>, <<5024, 5109>>, <<7312, 7354>>,
         <<7357, 7359>>, <<7680, 7680>>, <<7682, 7682>>, <<7684, 7684>>, <<7686, 7686>>,
         <<7688, 7688>>, <<7690, 7690>>, <<7692, 7692>>, <<7694, 7694>>, <<7696, 7696>>,
         <<7698, 7698>>, <<7700, 7700>>, <<7702, 7702>>, <<7704, 7704>>, <<7706, 7706>>,
         <<7708, 7708>>, <<7710, 7710>>, <<7712, 7712>>, <<7714, 7714>>, <<7716, 7716>>,
         <<7718, 7718>>, <<7720, 7720>>, <<7722, 7722>>, <<7724, 7724>>, <<7726, 7726>>,
         <<7728, 7728>>, <<7730, 7730>>, <<7732, 7732>>, <<7734, 7734>>, <<7736, 7736>>,
         <<7738, 7738>>, <<7740, 7740>>, <<7742, 7742>>, <<7744, 7744>>, <<7746, 7746>>,
         <<7748, 7748>>, <<7750, 7750>>, <<7752, 7752>>, <<7754, 7754>>, <<7756, 7756>>,
         <<7758, 7758>>, <<7760, 7760>>, <<7762, 7762>>, <<7764, 7764>>, <<7766, 7766>>,
         <<7768, 7768>>, <<7770, 7770>>, <<7772, 7772>>, <<7774, 7774>>, <<7776, 7776>>,
         <<7778, 7778>>, <<7780, 7780>>, <<7782, 7782>>, <<7784, 7784>>, <<7786, 7786>>,
         <<7788, 7788>>, <<7790, 7790>>, <<7792, 7792>>, <<7794, 7794>>, <<7796, 7796>>,
         <<7798, 7798>>, <<7800, 7800>>, <<7802, 7802>>, <<7804, 7804>>, <<7806, 7806>>,
         <<7808, 7808>>, <<7810, 7810>>, <<7812, 7812>>, <<7814, 7814>>, <<7816, 7816>>,
         <<7818, 7818>>, <<7820, 7820>>, <<7822, 7822>>, <<7824, 7824>>, <<7826, 7826>>,
         <<7828, 7828>>, <<7838, 7838>>, <<7840, 7840>>, <<7842, 7842>>, <<7844, 7844>>,
         <<7846, 7846>>, <<7848, 7848>>, <<7850, 7850>>, <<7852, 7852>>, <<7854, 7854>>,
         <<7856, 7856>>, <<7858, 7858>>, <<7860, 7860>>, <<7862, 7862>>, <<7864, 7864>>,
         <<7866, 7866>>, <<7868, 7868>>, <<7870, 7870>>, <<7872, 7872>>, <<7874, 7874>>,
         <<7876, 7876>>, <<7878, 7878>>, <<7880, 7880>>, <<7882, 7882>>, <<7884, 7884>>,
         <<7886, 7886>>, <<7888, 7888>>, <<7890, 7890>>, <<7892, 7892>>, <<7894, 7894>>,
         <<7896, 7896>>, <<7898, 7898>>, <<7900, 7900>>, <<7902, 7902>>, <<7904, 7904>>,
         <<7906, 7906>>, <<7908, 7908>>, <<7910, 7910>>, <<7912, 7912>>, <<7914, 7914>>,
         <<7916, 7916>>, <<7918, 7918>>, <<7920, 7920>>, <<7922, 7922>>, <<7924, 7924>>,
         <<7926, 7926>>, <<7928, 7928>>, <<7930, 7930>>, <<7932, 7932>>, <<7934, 7934>>,
         <<7944, 7951>>, <<7960, 7965>>, <<7976, 7983>>, <<7992, 7999>>, <<8008, 8013>>,
         <<8025, 8025>>, <<8027, 8027>>, <<8029, 8029>>, <<8031, 8031>>, <<8040, 8047>>,
         <<8120, 8123>>, <<8136, 8139>>, <<8152, 8155>>, <<8168, 8172>>, <<8184, 8187>>,
         <<8450, 8450>>, <<8455, 8455>>, <<8459, 8461>>, <<8464, 8466>>, <<8469, 8469>>,
         <<8473, 8477>>, <<8484, 8484>>, <<8486, 8486>>, <<8488, 8488>>, <<8490, 8493>>,
         <<8496, 8499>>, <<8510, 8511>>, <<8517, 8517>>, <<8579, 8579>>, <<11264, 11311>>,
         <<11360, 11360>>, <<11362, 11364>>, <<11367, 11367>>, <<11369, 11369>>,
         <<11371, 11371>>, <<11373, 11376>>, <<11378, 11378>>, <<11381, 11381>>,
         <<11390, 11392>>, <<11394, 11394>>, <<11396, 11396>>, <<11398, 11398>>,
         <<11400, 11400>>, <<11402, 11402>>, <<11404, 11404>>, <<11406, 11406>>,
         <<11408, 11408>>, <<11410, 11410>>, <<11412, 11412>>, <<11414, 11414>>,
         <<11416, 11416>>, <<11418, 11418>>, <<11420, 11420>>, <<11422, 11422>>,
         <<11424, 11424>>, <<11426, 11426>>, <<11428, 11428>>, <<11430, 11430>>,
         <<11432, 11432>>, <<11434, 11434>>, <<11436, 11436>>, <<11438, 11438>>,
         <<11440, 11440>>, <<11442, 11442>>, <<11444, 11444>>, <<11446, 11446>>,
         <<11448, 11448>>, <<11450, 11450>>, <<11452, 11452>>, <<11454, 11454>>,
         <<11456, 11456>>, <<11458, 11458>>, <<11460, 11460>>, <<11462, 11462>>,
         <<11464, 11464>>, <<11466, 11466>>, <<11468, 11468>>, <<11470, 11470>>,
         <<11472, 11472>>, <<11474, 11474>>, <<11476, 11476>>, <<11478, 11478>>,
         <<11480, 11480>>, <<11482, 11482>>, <<11484, 11484>>, <<11486, 11486>>,
         <<11488, 11488>>, <<11490, 11490>>, <<11499, 11499>>, <<11501, 11501>>,
         <<11506, 11506>>, <<42560, 42560>>, <<42562, 42562>>, <<42564, 42564>>,
         <<42566, 42566>>, <<42568, 42568>>, <<42570, 42570>>, <<42572, 42572>>,
         <<42574, 42574>>, <<42576, 42576>>, <<42578, 42578>>, <<42580, 42580>>,
         <<42582, 42582>>, <<42584, 42584>>, <<42586, 42586>>, <<42588, 42588>>,
         <<42590, 42590>>, <<42592, 42592>>, <<42594, 42594>>, <<42596, 42596>>,
         <<42598, 42598>>, <<42600, 42600>>, <<42602, 42602>>, <<42604, 42604>>,
         <<42624, 42624>>, <<42626, 42626>>, <<42628, 42628>>, <<42630, 42630>>,
         <<42632, 42632>>, <<42634, 42634>>, <<42636, 42636>>, <<42638, 42638>>,
         <<42640, 42640>>, <<42642, 42642>>, <<42644, 42644>>, <<42646, 42646>>,
         <<42648, 42648>>, <<42650, 42650>>, <<42786, 42786>>, <<42788, 42788>>,
         <<42790, 42790>>, <<42792, 42792>>, <<42794, 42794>>, <<42796, 42796>>,
         <<42798, 42798>>, <<42802, 42802>>, <<42804, 42804>>, <<42806, 42806>>,
         <<42808, 42808>>, <<42810, 42810>>, <<42812, 42812>>, <<42814, 42814>>,
         <<42816, 42816>>, <<42818, 42818>>, <<42820, 42820>>, <<42822, 42822>>,
         <<42824, 42824>>, <<42826, 42826>>, <<42828, 42828>>, <<42830, 42830>>,
         <<42832, 42832>>, <<42834, 42834>>, <<42836, 42836>>, <<42838, 42838>>,
         <<42840, 42840>>, <<42842, 42842>>, <<42844, 42844>>, <<42846, 42846>>,
         <<42848, 42848>>, <<42850, 42850>>, <<42852, 42852>>, <<42854, 42854>>,
         <<42856, 42856>>, <<42858, 42858>>, <<42860, 42860>>, <<42862, 42862>>,
         <<42873, 42873>>, <<42875, 42875>>, <<42877, 42878>>, <<42880, 42880>>,
         <<42882, 42882>>, <<42884, 42884>>, <<42886, 42886>>, <<42891, 42891>>,
         <<42893, 42893>>, <<42896, 42896>>, <<42898, 42898>>, <<42902, 42902>>,
         <<42904, 42904>>, <<42906, 42906>>, <<42908, 42908>>, <<42910, 42910>>,
         <<42912, 42912>>, <<42914, 42914>>, <<42916, 42916>>, <<42918, 42918>>,
         <<42920, 42920>>, <<42922, 42926>>, <<42928, 42932>>, <<42934, 42934>>,
         <<42936, 42936>>, <<42938, 42938>>, <<42940, 42940>>, <<42942, 42942>>,
         <<42944, 42944>>, <<42946, 42946>>, <<42948, 42951>>, <<42953, 42953>>,
         <<42960, 42960>>, <<42966, 42966>>, <<42968, 42968>>, <<42997, 42997>>,
         <<65313, 65338>>, <<66560, 66599>>, <<66736, 66771>>, <<66928, 66938>>,
         <<66940, 66954>>, <<66956, 66962>>, <<66964, 66965>>, <<68736, 68786>>,
         <<71840, 71871>>, <<93760, 93791>>, <<119808, 119833>>, <<119860, 119885>>,
         <<119912, 119937>>, <<119964, 119964>>, <<119966, 119967>>, <<119970, 119970>>,
         <<119973, 119974>>, <<119977, 119980>>, <<119982, 119989>>, <<120016, 120041>>,
         <<120068, 120069>>, <<120071, 120074>>, <<120077, 120084>>, <<120086, 120092>>,
         <<120120, 120121>>, <<120123, 120126>>, <<120128, 120132>>, <<120134, 120134>>,
         <<120138, 120144>>, <<120172, 120197>>, <<120224, 120249>>, <<120276, 120301>>,
         <<120328, 120353>>, <<120380, 120405>>, <<120432, 120457>>, <<120488, 120512>>,
         <<120546, 120570>>, <<120604, 120628>>, <<120662, 120686>>, <<120720, 120744>>,
         <<120778, 120778>>, <<125184, 125217>>},
     Mc |->
         {<<2307, 2307>>, <<2363, 2363>>, <<2366, 2368>>, <<2377, 2380>>, <<2382, 2383>>,
         <<2434, 2435>>, <<2494, 2496>>, <<2503, 2504>>, <<2507, 2508>>, <<2519, 2519>>,
         <<2563, 2563>>, <<2622, 2624>>, <<2691, 2691>>, <<2750, 2752>>, <<2761, 2761>>,
         <<2763, 2764>>, <<2818, 2819>>, <<2878, 2878>>, <<2880, 2880>>, <<2887, 2888>>,
         <<2891, 2892>>, <<2903, 2903>>, <<3006, 3007>>, <<3009, 3010>>, <<3014, 3016>>,
         <<3018, 3020>>, <<3031, 3031>>, <<3073, 3075>>, <<3137, 3140>>, <<3202, 3203>>,
         <<3262, 3262>>, <<3264, 3268>>, <<3271, 3272>>, <<3274, 3275>>, <<3285, 3286>>,
         <<3315, 3315>>, <<3330, 3331>>, <<3390, 3392>>, <<3398, 3400>>, <<3402, 3404>>,
         <<3415, 3415>>, <<3458, 3459>>, <<3535, 3537>>, <<3544, 3551>>, <<3570, 3571>>,
         <<3902, 3903>>, <<3967, 3967>>, <<4139, 4140>>, <<4145, 4145>>, <<4152, 4152>>,
         <<4155, 4156>>, <<4182, 4183>>, <<4194, 4196>>, <<4199, 4205>>, <<4227, 4228>>,
         <<4231, 4236>>, <<4239, 4239>>, <<4250, 4252>>, <<5909, 5909>>, <<5940, 5940>>,
         <<6070, 6070>>, <<6078, 6085>>, <<6087, 6088>>, <<6435, 6438>>, <<6441, 6443>>,
         <<6448, 6449>>, <<6451, 6456>>, <<6681, 6682>>, <<6741, 6741>>, <<6743, 6743>>,
         <<6753, 6753>>, <<6755, 6756>>, <<6765, 6770>>, <<6916, 6916>>, <<6965, 6965>>,
         <<6971, 6971>>, <<6973, 6977>>, <<6979, 6980>>, <<7042, 7042>>, <<7073, 7073>>,
         <<7078, 7079>>, <<7082, 7082>>, <<7143, 7143>>, <<7146, 7148>>, <<7150, 7150>>,
         <<7154, 7155>>, <<7204, 7211>>, <<7220, 7221>>, <<7393, 7393>>, <<7415, 7415>>,
         <<12334, 12335>>, <<43043, 43044>>, <<43047, 43047>>, <<43136, 43137>>,
         <<43188, 43203>>, <<43346, 43347>>, <<43395, 43395>>, <<43444, 43445>>,
         <<43450, 43451>>, <<43454, 43456>>, <<43567, 43568>>, <<43571, 43572>>,
         <<43597, 43597>>, <<43643, 43643>>, <<43645, 43645>>, <<43755, 43755>>,
         <<43758, 43759>>, <<43765, 43765>>, <<44003, 44004>>, <<44006, 44007>>,
         <<44009, 44010>>, <<44012, 44012>>, <<69632, 69632>>, <<69634, 69634>>,
         <<69762, 69762>>, <<69808, 69810>>, <<69815, 69816>>, <<69932, 69932>>,
         <<69957, 69958>>, <<70018, 70018>>, <<70067, 70069>>, <<70079, 70080>>,
         <<70094, 70094>>, <<70188, 70190>>, <<70194, 70195>>, <<70197, 70197>>,
         <<70368, 70370>>, <<70402, 70403>>, <<70462, 70463>>, <<70465, 70468>>,
         <<70471, 70472>>, <<70475, 70477>>, <<70487, 70487>>, <<70498, 70499>>,
         <<70709, 70711>>, <<70720, 70721>>, <<70725, 70725>>, <<70832, 70834>>,
         <<70841, 70841>>, <<70843, 70846>>, <<70849, 70849>>, <<71087, 71089>>,
         <<71096, 71099>>, <<71102, 71102>>, <<71216, 71218>>, <<71227, 71228>>,
         <<71230, 71230>>, <<71340, 71340>>, <<71342, 71343>>, <<71350, 71350>>,
         <<71456, 71457>>, <<71462, 71462>>, <<71724, 71726>>, <<71736, 71736>>,
         <<71984, 71989>>, <<71991, 71992>>, <<71997, 71997>>, <<72000, 72000>>,
         <<72002, 72002>>, <<72145, 72147>>, <<72156, 72159>>, <<72164, 72164>>,
         <<72249, 72249>>, <<72279, 72280>>, <<72343, 72343>>, <<72751, 72751>>,
         <<72766, 72766>>, <<72873, 72873>>, <<72881, 72881>>, <<72884, 72884>>,
         <<73098, 73102>>, <<73107, 73108>>, <<73110, 73110>>, <<73461, 73462>>,
         <<73475, 73475>>, <<73524, 73525>>, <<73534, 73535>>, <<73537, 73537>>,
         <<94033, 94087>>, <<94192, 94193>>, <<119141, 119142>>, <<119149, 119154>>},
     Me |->
         {<<1160, 1161>>, <<6846, 6846>>, <<8413, 8416>>, <<8418, 8420>>, <<42608, 42610>>},
     Mn |->
         {<<768, 879>>, <<1155, 1159>>, <<1425, 1469>>, <<1471, 1471>>, <<1473, 1474>>,
         <<1476, 1477>>, <<1479, 1479>>, <<1552, 1562>>, <<1611, 1631>>, <<1648, 1648>>,
         <<1750, 1756>>, <<1759, 1764>>, <<1767, 1768>>, <<1770, 1773>>, <<1809, 1809>>,
         <<1840, 1866>>, <<1958, 1968>>, <<2027, 2035>>, <<2045, 2045>>, <<2070, 2073>>,
         <<2075, 2083>>, <<2085, 2087>>, <<2089, 2093>>, <<2137, 2139>>, <<2200, 2207>>,
         <<2250, 2273>>, <<2275, 2306>>, <<2362, 2362>>, <<2364, 2364>>, <<2369, 2376>>,
         <<2381, 2381>>, <<2385, 2391>>, <<2402, 2403>>, <<2433, 2433>>, <<2492, 2492>>,
         <<2497, 2500>>, <<2509, 2509>>, <<2530, 2531>>, <<2558, 2558>>, <<2561, 2562>>,
         <<2620, 2620>>, <<2625, 2626>>, <<2631, 2632>>, <<2635, 2637>>, <<2641, 2641>>,
         <<2672, 2673>>, <<2677, 2677>>, <<2689, 2690>>, <<2748, 2748>>, <<2753, 2757>>,
         <<2759, 2760>>, <<2765, 2765>>, <<2786, 2787>>, <<2810, 2815>>, <<2817, 2817>>,
         <<2876, 2876>>, <<2879, 2879>>, <<2881, 2884>>, <<2893, 2893>>, <<2901, 2902>>,
         <<2914, 2915>>, <<2946, 2946>>, <<3008, 3008>>, <<3021, 3021>>, <<3072, 3072>>,
         <<3076, 3076>>, <<3132, 3132>>, <<3134, 3136>>, <<3142, 3144>>, <<3146, 3149>>,
         <<3157, 3158>>, <<3170, 3171>>, <<3201, 3201>>, <<3260, 3260>>, <<3263, 3263>>,
         <<3270, 3270>>, <<3276, 3277>>, <<3298, 3299>>, <<3328, 3329>>, <<3387, 3388>>,
         <<3393, 3396>>, <<3405, 3405>>, <<3426, 3427>>, <<3457, 3457>>, <<3530, 3530>>,
         <<3538, 3540>>, <<3542, 3542>>, <<3633, 3633>>, <<3636, 3642>>, <<3655, 3662>>,
         <<3761, 3761>>, <<3764, 3772>>, <<3784, 3790>>, <<3864, 3865>>, <<3893, 3893>>,
         <<3895, 3895>>, <<3897, 3897>>, <<3953, 3966>>, <<3968, 3972>>, <<3974, 3975>>,
         <<3981, 3991>>, <<3993, 4028>>, <<4038, 4038>>, <<4141, 4144>>, <<4146, 4151>>,
         <<4153, 4154>>, <<4157, 4158>>, <<4184, 4185>>, <<4190, 4192>>, <<4209, 4212>>,
         <<4226, 4226>>, <<4229, 4230>>, <<4237, 4237>>, <<4253, 4253>>, <<4957, 4959>>,
         <<5906, 5908>>, <<5938, 5939>>, <<5970, 5971>>, <<6002, 6003>>, <<6068, 6069>>,
         <<6071, 6077>>, <<6086, 6086>>, <<6089, 6099>>, <<6109, 6109>>, <<6155, 6157>>,
         <<6159, 6159>>, <<6277, 6278>>, <<6313, 6313>>, <<6432, 6434>>, <<6439, 6440>>,
         <<6450, 6450>>, <<6457, 6459>>, <<6679, 6680>>, <<6683, 6683>>, <<6742, 6742>>,
         <<6744, 6750>>, <<6752, 6752>>, <<6754, 6754>>, <<6757, 6764>>, <<6771, 6780>>,
         <<6783, 6783>>, <<6832, 6845>>, <<6847, 6862>>, <<6912, 6915>>, <<6964, 6964>>,
         <<6966, 6970>>, <<6972, 6972>>, <<6978, 6978>>, <<7019, 7027>>, <<7040, 7041>>,
         <<7074, 7077>>, <<7080, 7081>>, <<7083, 7085>>, <<7142, 7142>>, <<7144, 7145>>,
         <<7149, 7149>>, <<7151, 7153>>, <<7212, 7219>>, <<7222, 7223>>, <<7376, 7378>>,
         <<7380, 7392>>, <<7394, 7400>>, <<7405, 7405>>, <<7412, 7412>>, <<7416, 7417>>,
         <<7616, 7679>>, <<8400, 8412>>, <<8417, 8417>>, <<8421, 8432>>, <<11503, 11505>>,
         <<11647, 11647>>, <<11744, 11775>>, <<12330, 12333>>, <<12441, 12442>>,
         <<42607, 42607>>, <<42612, 42621>>, <<42654, 42655>>, <<42736, 42737>>,
         <<43010, 43010>>, <<43014, 43014>>, <<43019, 43019>>, <<43045, 43046>>,
         <<43052, 43052>>, <<43204, 43205>>, <<43232, 43249>>, <<43263, 43263>>,
         <<43302, 43309>>, <<43335, 43345>>, <<43392, 43394>>, <<43443, 43443>>,
         <<43446, 43449>>, <<43452, 43453>>, <<43493, 43493>>, <<43561, 43566>>,
         <<43569, 43570>>, <<43573, 43574>>, <<43587, 43587>>, <<43596, 43596>>,
         <<43644, 43644>>, <<43696, 43696>>, <<43698, 43700>>, <<43703, 43704>>,
         <<43710, 43711>>, <<43713, 43713>>, <<43756, 43757>>, <<43766, 43766>>,
         <<44005, 44005>>, <<44008, 44008>>, <<44013, 44013>>, <<64286, 64286>>,
         <<65024, 65039>>, <<65056, 65071>>, <<66045, 66045>>, <<66272, 66272>>,
         <<66422, 66426>>, <<68097, 68099>>, <<68101, 68102>>, <<68108, 68111>>,
         <<68152, 68154>>, <<68159, 68159>>, <<68325, 68326>>, <<68900, 68903>>,
         <<69291, 69292>>, <<69373, 69375>>, <<69446, 69456>>, <<69506, 69509>>,
         <<69633, 69633>>, <<69688, 69702>>, <<69744, 69744>>, <<69747, 69748>>,
         <<69759, 69761>>, <<69811, 69814>>, <<69817, 69818>>, <<69826, 69826>>,
         <<69888, 69890>>, <<69927, 69931>>, <<69933, 69940>>, <<70003, 70003>>,
         <<70016, 70017>>, <<70070, 70078>>, <<70089, 70092>>, <<70095, 70095>>,
         <<70191, 70193>>, <<70196, 70196>>, <<70198, 70199>>, <<70206, 70206>>,
         <<70209, 70209>>, <<70367, 70367>>, <<70371, 70378>>, <<70400, 70401>>,
         <<70459, 70460>>, <<70464, 70464>>, <<70502, 70508>>, <<70512, 70516>>,
         <<70712, 70719>>, <<70722, 70724>>, <<70726, 70726>>, <<70750, 70750>>,
         <<70835, 70840>>, <<70842, 70842>>, <<70847, 70848>>, <<70850, 70851>>,
         <<71090, 71093>>, <<71100, 71101>>, <<71103, 71104>>, <<71132, 71133>>,
         <<71219, 71226>>, <<71229, 71229>>, <<71231, 71232>>, <<71339, 71339>>,
         <<71341, 71341>>, <<71344, 71349>>, <<71351, 71351>>, <<71453, 71455>>,
         <<71458, 71461>>, <<71463, 71467>>, <<71727, 71735>>, <<71737, 71738>>,
         <<71995, 71996>>, <<71998, 71998>>, <<72003, 72003>>, <<72148, 72151>>,
         <<72154, 72155>>, <<72160, 72160>>, <<72193, 72202>>, <<72243, 72248>>,
         <<72251, 72254>>, <<72263, 72263>>, <<72273, 72278>>, <<72281, 72283>>,
         <<72330, 72342>>, <<72344, 72345>>, <<72752, 72758>>, <<72760, 72765>>,
         <<72767, 72767>>, <<72850, 72871>>, <<72874, 72880>>, <<72882, 72883>>,
         <<72885, 72886>>, <<73009, 73014>>, <<73018, 73018>>, <<73020, 73021>>,
         <<73023, 73029>>, <<73031, 73031>>, <<73104, 73105>>, <<73109, 73109>>,
         <<73111, 73111>>, <<73459, 73460>>, <<73472, 73473>>, <<73526, 73530>>,
         <<73536, 73536>>, <<73538, 73538>>, <<78912, 78912>>, <<78919, 78933>>,
         <<92912, 92916>>, <<92976, 92982>>, <<94031, 94031>>, <<94095, 94098>>,
         <<94180, 94180>>, <<113821, 113822>>, <<118528, 118573>>, <<118576, 118598>>,
         <<119143, 119145>>, <<119163, 119170>>, <<119173, 119179>>, <<119210, 119213>>,
         <<119362, 119364>>, <<121344, 121398>>, <<121403, 121452>>, <<121461, 121461>>,
         <<121476, 121476>>, <<121499, 121503>>, <<121505, 121519>>, <<122880, 122886>>,
         <<122888, 122904>>, <<122907, 122913>>, <<122915, 122916>>, <<122918, 122922>>,
         <<123023, 123023>>, <<123184, 123190>>, <<123566, 123566>>, <<123628, 123631>>,
         <<124140, 124143>>, <<125136, 125142>>, <<125252, 125258>>, <<917760, 917999>>},
     Nd |->
         {<<48, 57>>, <<1632, 1641>>, <<1776, 1785>>, <<1984, 1993>>, <<2406, 2415>>,
         <<2534, 2543>>, <<2662, 2671>>, <<2790, 2799>>, <<2918, 2927>>, <<3046, 3055>>,
         <<3174, 3183>>, <<3302, 3311>>, <<3430, 3439>>, <<3558, 3567>>, <<3664, 3673>>,
         <<3792, 3801>>, <<3872, 3881>>, <<4160, 4169>>, <<4240, 4249>>, <<6112, 6121>>,
         <<6160, 6169>>, <<6470, 6479>>, <<6608, 6617>>, <<6784, 6793>>, <<6800, 6809>>,
         <<6992, 7001>>, <<7088, 7097>>, <<7232, 7241>>, <<7248, 7257>>, <<42528, 42537>>,
         <<43216, 43225>>, <<43264, 43273>>, <<43472, 43481>>, <<43504, 43513>>,
         <<43600, 43609>>, <<44016, 44025>>, <<65296, 65305>>, <<66720, 66729>>,
         <<68912, 68921>>, <<69734, 69743>>, <<69872, 69881>>, <<69942, 69951>>,
         <<70096, 70105>>, <<70384, 70393>>, <<70736, 70745>>, <<70864, 70873>>,
         <<71248, 71257>>, <<71360, 71369>>, <<71472, 71481>>, <<71904, 71913>>,
         <<72016, 72025>>, <<72784, 72793>>, <<73040, 73049>>, <<73120, 73129>>,
         <<73552, 73561>>, <<92768, 92777>>, <<92864, 92873>>, <<93008, 93017>>,
         <<120782, 120831>>, <<123200, 123209>>, <<123632, 123641>>, <<124144, 124153>>,
         <<125264, 125273>>, <<130032, 130041>>},
     Nl |->
         {<<5870, 5872>>, <<8544, 8578>>, <<8581, 8584>>, <<12295, 12295>>, <<12321, 12329>>,
         <<12344, 12346>>, <<42726, 42735>>, <<65856, 65908>>, <<66369, 66369>>,
         <<66378, 66378>>, <<66513, 66517>>, <<74752, 74862>>},
     No |->
         {<<178, 179>>, <<185, 185>>, <<188, 190>>, <<2548, 2553>>, <<2930, 2935>>,
         <<3056, 3058>>, <<3192, 3198>>, <<3416, 3422>>, <<3440, 3448>>, <<3882, 3891>>,
         <<4969, 4988>>, <<6128, 6137>>, <<6618, 6618>>, <<8304, 8304>>, <<8308, 8313>>,
         <<8320, 8329>>, <<8528, 8543>>, <<8585, 8585>>, <<9312, 9371>>, <<9450, 9471>>,
         <<10102, 10131>>, <<11517, 11517>>, <<12690, 12693>>, <<12832, 12841>>,
         <<12872, 12879>>, <<12881, 12895>>, <<12928, 12937>>, <<12977, 12991>>,
         <<43056, 43061>>, <<65799, 65843>>, <<65909, 65912>>, <<65930, 65931>>,
         <<66273, 66299>>, <<66336, 66339>>, <<67672, 67679>>, <<67705, 67711>>,
         <<67751, 67759>>, <<67835, 67839>>, <<67862, 67867>>, <<68028, 68029>>,
         <<68032, 68047>>, <<68050, 68095>>, <<68160, 68168>>, <<68221, 68222>>,
         <<68253, 68255>>, <<68331, 68335>>, <<68440, 68447>>, <<68472, 68479>>,
         <<68521, 68527>>, <<68858, 68863>>, <<69216, 69246>>, <<69405, 69414>>,
         <<69457, 69460>>, <<69573, 69579>>, <<69714, 69733>>, <<70113, 70132>>,
         <<71482, 71483>>, <<71914, 71922>>, <<72794, 72812>>, <<73664, 73684>>,
         <<93019, 93025>>, <<93824, 93846>>, <<119488, 119507>>, <<119520, 119539>>,
         <<119648, 119672>>, <<125127, 125135>>, <<126065, 126123>>, <<126125, 126127>>,
         <<126129, 126132>>, <<126209, 126253>>, <<126255, 126269>>, <<127232, 127244>>},
     Pc |->
         {<<95, 95>>, <<8255, 8256>>, <<8276, 8276>>, <<65075, 65076>>, <<65101, 65103>>,
         <<65343, 65343>>},
     Pd |->
         {<<45, 45>>, <<1418, 1418>>, <<1470, 1470>>, <<5120, 5120>>, <<6150, 6150>>,
         <<8208, 8213>>, <<11799, 11799>>, <<11802, 11802>>, <<11834, 11835>>, <<11840, 11840>>,
         <<11869, 11869>>, <<12316, 12316>>, <<12336, 12336>>, <<12448, 12448>>,
         <<65073, 65074>>, <<65112, 65112>>, <<65123, 65123>>, <<65293, 65293>>,
         <<69293, 69293>>},
     Pe |->
         {<<41, 41>>, <<93, 93>>, <<125, 125>>, <<3899, 3899>>, <<3901, 3901>>, <<5788, 5788>>,
         <<8262, 8262>>, <<8318, 8318>>, <<8334, 8334>>, <<8969, 8969>>, <<8971, 8971>>,
         <<9002, 9002>>, <<10089, 10089>>, <<10091, 10091>>, <<10093, 10093>>, <<10095, 10095>>,
         <<10097, 10097>>, <<10099, 10099>>, <<10101, 10101>>, <<10182, 10182>>,
         <<10215, 10215>>, <<10217, 10217>>, <<10219, 10219>>, <<10221, 10221>>,
         <<10223, 10223>>, <<10628, 10628>>, <<10630, 10630>>, <<10632, 10632>>,
         <<10634, 10634>>, <<10636, 10636>>, <<10638, 10638>>, <<10640, 10640>>,
         <<10642, 10642>>, <<10644, 10644>>, <<10646, 10646>>, <<10648, 10648>>,
         <<10713, 10713>>, <<10715, 10715>>, <<10749, 10749>>, <<11811, 11811>>,
         <<11813, 11813>>, <<11815, 11815>>, <<11817, 11817>>, <<11862, 11862>>,
         <<11864, 11864>>, <<11866, 11866>>, <<11868, 11868>>, <<12297, 12297>>,
         <<12299, 12299>>, <<12301, 12301>>, <<12303, 12303>>, <<12305, 12305>>,
         <<12309, 12309>>, <<12311, 12311>>, <<12313, 12313>>, <<12315, 12315>>,
         <<12318, 12319>>, <<64830, 64830>>, <<65048, 65048>>, <<65078, 65078>>,
         <<65080, 65080>>, <<65082, 65082>>, <<65084, 65084>>, <<65086, 65086>>,
         <<65088, 65088>>, <<65090, 65090>>, <<65092, 65092>>, <<65096, 65096>>,
         <<65114, 65114>>, <<65116, 65116>>, <<65118, 65118>>, <<65289, 65289>>,
         <<65341, 65341>>, <<65373, 65373>>, <<65376, 65376>>, <<65379, 65379>>},
     Pf |->
         {<<187, 187>>, <<8217, 8217>>, <<8221, 8221>>, <<8250, 8250>>, <<11779, 11779>>,
         <<11781, 11781>>, <<11786, 11786>>, <<11789, 11789>>, <<11805, 11805>>,
         <<11809, 11809>>},
     Pi |->
         {<<171, 171>>, <<8216, 8216>>, <<8219, 8220>>, <<8223, 8223>>, <<8249, 8249>>,
         <<11778, 11778>>, <<11780, 11780>>, <<11785, 11785>>, <<11788, 11788>>,
         <<11804, 11804>>, <<11808, 11808>>},
     Po |->
         {<<33, 35>>, <<37, 39>>, <<42, 42>>, <<44, 44>>, <<46, 47>>, <<58, 59>>, <<63, 64>>,
         <<92, 92>>, <<161, 161>>, <<167, 167>>, <<182, 183>>, <<191, 191>>, <<894, 894>>,
         <<903, 903>>, <<1370, 1375>>, <<1417, 1417>>, <<1472, 1472>>, <<1475, 1475>>,
         <<1478, 1478>>, <<1523, 1524>>, <<1545, 1546>>, <<1548, 1549>>, <<1563, 1563>>,
         <<1565, 1567>>, <<1642, 1645>>, <<1748, 1748>>, <<1792, 1805>>, <<2039, 2041>>,
         <<2096, 2110>>, <<2142, 2142>>, <<2404, 2405>>, <<2416, 2416>>, <<2557, 2557>>,
         <<2678, 2678>>, <<2800, 2800>>, <<3191, 3191>>, <<3204, 3204>>, <<3572, 3572>>,
         <<3663, 3663>>, <<3674, 3675>>, <<3844, 3858>>, <<3860, 3860>>, <<3973, 3973>>,
         <<4048, 4052>>, <<4057, 4058>>, <<4170, 4175>>, <<4347, 4347>>, <<4960, 4968>>,
         <<5742, 5742>>, <<5867, 5869>>, <<5941, 5942>>, <<6100, 6102>>, <<6104, 6106>>,
         <<6144, 6149>>, <<6151, 6154>>, <<6468, 6469>>, <<6686, 6687>>, <<6816, 6822>>,
         <<6824, 6829>>, <<7002, 7008>>, <<7037, 7038>>, <<7164, 7167>>, <<7227, 7231>>,
         <<7294, 7295>>, <<7360, 7367>>, <<7379, 7379>>, <<8214, 8215>>, <<8224, 8231>>,
         <<8240, 8248>>, <<8251, 8254>>, <<8257, 8259>>, <<8263, 8273>>, <<8275, 8275>>,
         <<8277, 8286>>, <<11513, 11516>>, <<11518, 11519>>, <<11632, 11632>>, <<11776, 11777>>,
         <<11782, 11784>>, <<11787, 11787>>, <<11790, 11798>>, <<11800, 11801>>,
         <<11803, 11803>>, <<11806, 11807>>, <<11818, 11822>>, <<11824, 11833>>,
         <<11836, 11839>>, <<11841, 11841>>, <<11843, 11855>>, <<11858, 11860>>,
         <<12289, 12291>>, <<12349, 12349>>, <<12539, 12539>>, <<42238, 42239>>,
         <<42509, 42511>>, <<42611, 42611>>, <<42622, 42622>>, <<42738, 42743>>,
         <<43124, 43127>>, <<43214, 43215>>, <<43256, 43258>>, <<43260, 43260>>,
         <<43310, 43311>>, <<43359, 43359>>, <<43457, 43469>>, <<43486, 43487>>,
         <<43612, 43615>>, <<43742, 43743>>, <<43760, 43761>>, <<44011, 44011>>,
         <<65040, 65046>>, <<65049, 65049>>, <<65072, 65072>>, <<65093, 65094>>,
         <<65097, 65100>>, <<65104, 65106>>, <<65108, 65111>>, <<65119, 65121>>,
         <<65128, 65128>>, <<65130, 65131>>, <<65281, 65283>>, <<65285, 65287>>,
         <<65290, 65290>>, <<65292, 65292>>, <<65294, 65295>>, <<65306, 65307>>,
         <<65311, 65312>>, <<65340, 65340>>, <<65377, 65377>>, <<65380, 65381>>,
         <<65792, 65794>>, <<66463, 66463>>, <<66512, 66512>>, <<66927, 66927>>,
         <<67671, 67671>>, <<67871, 67871>>, <<67903, 67903>>, <<68176, 68184>>,
         <<68223, 68223>>, <<68336, 68342>>, <<68409, 68415>>, <<68505, 68508>>,
         <<69461, 69465>>, <<69510, 69513>>, <<69703, 69709>>, <<69819, 69820>>,
         <<69822, 69825>>, <<69952, 69955>>, <<70004, 70005>>, <<70085, 70088>>,
         <<70093, 70093>>, <<70107, 70107>>, <<70109, 70111>>, <<70200, 70205>>,
         <<70313, 70313>>, <<70731, 70735>>, <<70746, 70747>>, <<70749, 70749>>,
         <<70854, 70854>>, <<71105, 71127>>, <<71233, 71235>>, <<71264, 71276>>,
         <<71353, 71353>>, <<71484, 71486>>, <<71739, 71739>>, <<72004, 72006>>,
         <<72162, 72162>>, <<72255, 72262>>, <<72346, 72348>>, <<72350, 72354>>,
         <<72448, 72457>>, <<72769, 72773>>, <<72816, 72817>>, <<73463, 73464>>,
         <<73539, 73551>>, <<73727, 73727>>, <<74864, 74868>>, <<77809, 77810>>,
         <<92782, 92783>>, <<92917, 92917>>, <<92983, 92987>>, <<92996, 92996>>,
         <<93847, 93850>>, <<94178, 94178>>, <<113823, 113823>>, <<121479, 121483>>,
         <<125278, 125279>>},
     Ps |->
         {<<40, 40>>, <<91, 91>>, <<123, 123>>, <<3898, 3898>>, <<3900, 3900>>, <<5787, 5787>>,
         <<8218, 8218>>, <<8222, 8222>>, <<8261, 8261>>, <<8317, 8317>>, <<8333, 8333>>,
         <<8968, 8968>>, <<8970, 8970>>, <<9001, 9001>>, <<10088, 10088>>, <<10090, 10090>>,
         <<10092, 10092>>, <<10094, 10094>>, <<10096, 10096>>, <<10098, 10098>>,
         <<10100, 10100>>, <<10181, 10181>>, <<10214, 10214>>, <<10216, 10216>>,
         <<10218, 10218>>, <<10220, 10220>>, <<10222, 10222>>, <<10627, 10627>>,
         <<10629, 10629>>, <<10631, 10631>>, <<10633, 10633>>, <<10635, 10635>>,
         <<10637, 10637>>, <<10639, 10639>>, <<10641, 10641>>, <<10643, 10643>>,
         <<10645, 10645>>, <<10647, 10647>>, <<10712, 10712>>, <<10714, 10714>>,
         <<10748, 10748>>, <<11810, 11810>>, <<11812, 11812>>, <<11814, 11814>>,
         <<11816, 11816>>, <<11842, 11842>>, <<11861, 11861>>, <<11863, 11863>>,
         <<11865, 11865>>, <<11867, 11867>>, <<12296, 12296>>, <<12298, 12298>>,
         <<12300, 12300>>, <<12302, 12302>>, <<12304, 12304>>, <<12308, 12308>>,
         <<12310, 12310>>, <<12312, 12312>>, <<12314, 12314>>, <<12317, 12317>>,
         <<64831, 64831>>, <<65047, 65047>>, <<65077, 65077>>, <<65079, 65079>>,
         <<65081, 65081>>, <<65083, 65083>>, <<65085, 65085>>, <<65087, 65087>>,
         <<65089, 65089>>, <<65091, 65091>>, <<65095, 65095>>, <<65113, 65113>>,
         <<65115, 65115>>, <<65117, 65117>>, <<65288, 65288>>, <<65339, 65339>>,
         <<65371, 65371>>, <<65375, 65375>>, <<65378, 65378>>},
     Sc |->
         {<<36, 36>>, <<162, 165>>, <<1423, 1423>>, <<1547, 1547>>, <<2046, 2047>>,
         <<2546, 2547>>, <<2555, 2555>>, <<2801, 2801>>, <<3065, 3065>>, <<3647, 3647>>,
         <<6107, 6107>>, <<8352, 8384>>, <<43064, 43064>>, <<65020, 65020>>, <<65129, 65129>>,
         <<65284, 65284>>, <<65504, 65505>>, <<65509, 65510>>, <<73693, 73696>>,
         <<123647, 123647>>, <<126128, 126128>>},
     Sk |->
         {<<94, 94>>, <<96, 96>>, <<168, 168>>, <<175, 175>>, <<180, 180>>, <<184, 184>>,
         <<706, 709>>, <<722, 735>>, <<741, 747>>, <<749, 749>>, <<751, 767>>, <<885, 885>>,
         <<900, 901>>, <<2184, 2184>>, <<8125, 8125>>, <<8127, 8129>>, <<8141, 8143>>,
         <<8157, 8159>>, <<8173, 8175>>, <<8189, 8190>>, <<12443, 12444>>, <<42752, 42774>>,
         <<42784, 42785>>, <<42889, 42890>>, <<43867, 43867>>, <<43882, 43883>>,
         <<64434, 64450>>, <<65342, 65342>>, <<65344, 65344>>, <<65507, 65507>>,
         <<127995, 127999>>},
     Sm |->
         {<<43, 43>>, <<60, 62>>, <<124, 124>>, <<126, 126>>, <<172, 172>>, <<177, 177>>,
         <<215, 215>>, <<247, 247>>, <<1014, 1014>>, <<1542, 1544>>, <<8260, 8260>>,
         <<8274, 8274>>, <<8314, 8316>>, <<8330, 8332>>, <<8472, 8472>>, <<8512, 8516>>,
         <<8523, 8523>>, <<8592, 8596>>, <<8602, 8603>>, <<8608, 8608>>, <<8611, 8611>>,
         <<8614, 8614>>, <<8622, 8622>>, <<8654, 8655>>, <<8658, 8658>>, <<8660, 8660>>,
         <<8692, 8959>>, <<8992, 8993>>, <<9084, 9084>>, <<9115, 9139>>, <<9180, 9185>>,
         <<9655, 9655>>, <<9665, 9665>>, <<9720, 9727>>, <<9839, 9839>>, <<10176, 10180>>,
         <<10183, 10213>>, <<10224, 10239>>, <<10496, 10626>>, <<10649, 10711>>,
         <<10716, 10747>>, <<10750, 11007>>, <<11056, 11076>>, <<11079, 11084>>,
         <<64297, 64297>>, <<65122, 65122>>, <<65124, 65126>>, <<65291, 65291>>,
         <<65308, 65310>>, <<65372, 65372>>, <<65374, 65374>>, <<65506, 65506>>,
         <<65513, 65516>>, <<120513, 120513>>, <<120539, 120539>>, <<120571, 120571>>,
         <<120597, 120597>>, <<120629, 120629>>, <<120655, 120655>>, <<120687, 120687>>,
         <<120713, 120713>>, <<120745, 120745>>, <<120771, 120771>>, <<126704, 126705>>},
     So |->
         {<<166, 166>>, <<169, 169>>, <<174, 174>>, <<176, 176>>, <<1154, 1154>>, <<1421, 1422>>,
         <<1550, 1551>>, <<1758, 1758>>, <<1769, 1769>>, <<1789, 1790>>, <<2038, 2038>>,
         <<2554, 2554>>, <<2928, 2928>>, <<3059, 3064>>, <<3066, 3066>>, <<3199, 3199>>,
         <<3407, 3407>>, <<3449, 3449>>, <<3841, 3843>>, <<3859, 3859>>, <<3861, 3863>>,
         <<3866, 3871>>, <<3892, 3892>>, <<3894, 3894>>, <<3896, 3896>>, <<4030, 4037>>,
         <<4039, 4044>>, <<4046, 4047>>, <<4053, 4056>>, <<4254, 4255>>, <<5008, 5017>>,
         <<5741, 5741>>, <<6464, 6464>>, <<6622, 6655>>, <<7009, 7018>>, <<7028, 7036>>,
         <<8448, 8449>>, <<8451, 8454>>, <<8456, 8457>>, <<8468, 8468>>, <<8470, 8471>>,
         <<8478, 8483>>, <<8485, 8485>>, <<8487, 8487>>, <<8489, 8489>>, <<8494, 8494>>,
         <<8506, 8507>>, <<8522, 8522>>, <<8524, 8525>>, <<8527, 8527>>, <<8586, 8587>>,
         <<8597, 8601>>, <<8604, 8607>>, <<8609, 8610>>, <<8612, 8613>>, <<8615, 8621>>,
         <<8623, 8653>>, <<8656, 8657>>, <<8659, 8659>>, <<8661, 8691>>, <<8960, 8967>>,
         <<8972, 8991>>, <<8994, 9000>>, <<9003, 9083>>, <<9085, 9114>>, <<9140, 9179>>,
         <<9186, 9254>>, <<9280, 9290>>, <<9372, 9449>>, <<9472, 9654>>, <<9656, 9664>>,
         <<9666, 9719>>, <<9728, 9838>>, <<9840, 10087>>, <<10132, 10175>>, <<10240, 10495>>,
         <<11008, 11055>>, <<11077, 11078>>, <<11085, 11123>>, <<11126, 11157>>,
         <<11159, 11263>>, <<11493, 11498>>, <<11856, 11857>>, <<11904, 11929>>,
         <<11931, 12019>>, <<12032, 12245>>, <<12272, 12283>>, <<12292, 12292>>,
         <<12306, 12307>>, <<12320, 12320>>, <<12342, 12343>>, <<12350, 12351>>,
         <<12688, 12689>>, <<12694, 12703>>, <<12736, 12771>>, <<12800, 12830>>,
         <<12842, 12871>>, <<12880, 12880>>, <<12896, 12927>>, <<12938, 12976>>,
         <<12992, 13311>>, <<19904, 19967>>, <<42128, 42182>>, <<43048, 43051>>,
         <<43062, 43063>>, <<43065, 43065>>, <<43639, 43641>>, <<64832, 64847>>,
         <<64975, 64975>>, <<65021, 65023>>, <<65508, 65508>>, <<65512, 65512>>,
         <<65517, 65518>>, <<65532, 65533>>, <<65847, 65855>>, <<65913, 65929>>,
         <<65932, 65934>>, <<65936, 65948>>, <<65952, 65952>>, <<66000, 66044>>,
         <<67703, 67704>>, <<68296, 68296>>, <<71487, 71487>>, <<73685, 73692>>,
         <<73697, 73713>>, <<92988, 92991>>, <<92997, 92997>>, <<113820, 113820>>,
         <<118608, 118723>>, <<118784, 119029>>, <<119040, 119078>>, <<119081, 119140>>,
         <<119146, 119148>>, <<119171, 119172>>, <<119180, 119209>>, <<119214, 119274>>,
         <<119296, 119361>>, <<119365, 119365>>, <<119552, 119638>>, <<120832, 121343>>,
         <<121399, 121402>>, <<121453, 121460>>, <<121462, 121475>>, <<121477, 121478>>,
         <<123215, 123215>>, <<126124, 126124>>, <<126254, 126254>>, <<126976, 127019>>,
         <<127024, 127123>>, <<127136, 127150>>, <<127153, 127167>>, <<127169, 127183>>,
         <<127185, 127221>>, <<127245, 127405>>, <<127462, 127490>>, <<127504, 127547>>,
         <<127552, 127560>>, <<127568, 127569>>, <<127584, 127589>>, <<127744, 127994>>,
         <<128000, 128727>>, <<128732, 128748>>, <<128752, 128764>>, <<128768, 128886>>,
         <<128891, 128985>>, <<128992, 129003>>, <<129008, 129008>>, <<129024, 129035>>,
         <<129040, 129095>>, <<129104, 129113>>, <<129120, 129159>>, <<129168, 129197>>,
         <<129200, 129201>>, <<129280, 129619>>, <<129632, 129645>>, <<129648, 129660>>,
         <<129664, 129672>>, <<129680, 129725>>, <<129727, 129733>>, <<129742, 129755>>,
         <<129760, 129768>>, <<129776, 129784>>, <<129792, 129938>>, <<129940, 129994>>},
     Zl |->
         {<<8232, 8232>>},
     Zp |->
         {<<8233, 8233>>},
     Zs |->
         {<<32, 32>>, <<160, 160>>, <<5760, 5760>>, <<8192, 8202>>, <<8239, 8239>>,
         <<8287, 8287>>, <<12288, 12288>>}]

\* unicode.Scripts (Unicode 15.0.0): the ranges <<lo, hi>> of the code points
\* of each script
UnicodeScripts ==
    [Adlam |->
         {<<125184, 125259>>, <<125264, 125273>>, <<125278, 125279>>},
     Ahom |->
         {<<71424, 71450>>, <<71453, 71467>>, <<71472, 71494>>},
     Anatolian_Hieroglyphs |->
         {<<82944, 83526>>},
     Arabic |->
         {<<1536, 1540>>, <<1542, 1547>>, <<1549, 1562>>, <<1564, 1566>>, <<1568, 1599>>,
         <<1601, 1610>>, <<1622, 1647>>, <<1649, 1756>>, <<1758, 1791>>, <<1872, 1919>>,
         <<2160, 2190>>, <<2192, 2193>>, <<2200, 2273>>, <<2275, 2303>>, <<64336, 64450>>,
         <<64467, 64829>>, <<64832, 64911>>, <<64914, 64967>>, <<64975, 64975>>,
         <<65008, 65023>>, <<65136, 65140>>, <<65142, 65276>>, <<69216, 69246>>,
         <<69373, 69375>>, <<126464, 126467>>, <<126469, 126495>>, <<126497, 126498>>,
         <<126500, 126500>>, <<126503, 126503>>, <<126505, 126514>>, <<126516, 126519>>,
         <<126521, 126521>>, <<126523, 126523>>, <<126530, 126530>>, <<126535, 126535>>,
         <<126537, 126537>>, <<126539, 126539>>, <<126541, 126543>>, <<126545, 126546>>,
         <<126548, 126548>>, <<126551, 126551>>, <<126553, 126553>>, <<126555, 126555>>,
         <<126557, 126557>>, <<126559, 126559>>, <<126561, 126562>>, <<126564, 126564>>,
         <<126567, 126570>>, <<126572, 126578>>, <<126580, 126583>>, <<126585, 126588>>,
         <<126590, 126590>>, <<126592, 126601>>, <<126603, 126619>>, <<126625, 126627>>,
         <<126629, 126633>>, <<126635, 126651>>, <<126704, 126705>>},
     Armenian |->
         {<<1329, 1366>>, <<1369, 1418>>, <<1421, 1423>>, <<64275, 64279>>},
     Avestan |->
         {<<68352, 68405>>, <<68409, 68415>>},
     Balinese |->
         {<<6912, 6988>>, <<6992, 7038>>},
     Bamum |->
         {<<42656, 42743>>, <<92160, 92728>>},
     Bassa_Vah |->
         {<<92880, 92909>>, <<92912, 92917>>},
     Batak |->
         {<<7104, 7155>>, <<7164, 7167>>},
     Bengali |->
         {<<2432, 2435>>, <<2437, 2444>>, <<2447, 2448>>, <<2451, 2472>>, <<2474, 2480>>,
         <<2482, 2482>>, <<2486, 2489>>, <<2492, 2500>>, <<2503, 2504>>, <<2507, 2510>>,
         <<2519, 2519>>, <<2524, 2525>>, <<2527, 2531>>, <<2534, 2558>>},
     Bhaiksuki |->
         {<<72704, 72712>>, <<72714, 72758>>, <<72760, 72773>>, <<72784, 72812>>},
     Bopomofo |->
         {<<746, 747>>, <<12549, 12591>>, <<12704, 12735>>},
     Brahmi |->
         {<<69632, 69709>>, <<69714, 69749>>, <<69759, 69759>>},
     Braille |->
         {<<10240, 10495>>},
     Buginese |->
         {<<6656, 6683>>, <<6686, 6687>>},
     Buhid |->
         {<<5952, 5971>>},
     Canadian_Aboriginal |->
         {<<5120, 5759>>, <<6320, 6389>>, <<72368, 72383>>},
     Carian |->
         {<<66208, 66256>>},
     Caucasian_Albanian |->
         {<<66864, 66915>>, <<66927, 66927>>},
     Chakma |->
         {<<69888, 69940>>, <<69942, 69959>>},
     Cham |->
         {<<43520, 43574>>, <<43584, 43597>>, <<43600, 43609>>, <<43612, 43615>>},
     Cherokee |->
         {<<5024, 5109>>, <<5112, 5117>>, <<43888, 43967>>},
     Chorasmian |->
         {<<69552, 69579>>},
     Common |->
         {<<0, 64>>, <<91, 96>>, <<123, 169>>, <<171, 185>>, <<187, 191>>, <<215, 215>>,
         <<247, 247>>, <<697, 735>>, <<741, 745>>, <<748, 767>>, <<884, 884>>, <<894, 894>>,
         <<901, 901>>, <<903, 903>>, <<1541, 1541>>, <<1548, 1548>>, <<1563, 1563>>,
         <<1567, 1567>>, <<1600, 1600>>, <<1757, 1757>>, <<2274, 2274>>, <<2404, 2405>>,
         <<3647, 3647>>, <<4053, 4056>>, <<4347, 4347>>, <<5867, 5869>>, <<5941, 5942>>,
         <<6146, 6147>>, <<6149, 6149>>, <<7379, 7379>>, <<7393, 7393>>, <<7401, 7404>>,
         <<7406, 7411>>, <<7413, 7415>>, <<7418, 7418>>, <<8192, 8203>>, <<8206, 8292>>,
         <<8294, 8304>>, <<8308, 8318>>, <<8320, 8334>>, <<8352, 8384>>, <<8448, 8485>>,
         <<8487, 8489>>, <<8492, 8497>>, <<8499, 8525>>, <<8527, 8543>>, <<8585, 8587>>,
         <<8592, 9254>>, <<9280, 9290>>, <<9312, 10239>>, <<10496, 11123>>, <<11126, 11157>>,
         <<11159, 11263>>, <<11776, 11869>>, <<12272, 12283>>, <<12288, 12292>>,
         <<12294, 12294>>, <<12296, 12320>>, <<12336, 12343>>, <<12348, 12351>>,
         <<12443, 12444>>, <<12448, 12448>>, <<12539, 12540>>, <<12688, 12703>>,
         <<12736, 12771>>, <<12832, 12895>>, <<12927, 13007>>, <<13055, 13055>>,
         <<13144, 13311>>, <<19904, 19967>>, <<42752, 42785>>, <<42888, 42890>>,
         <<43056, 43065>>, <<43310, 43310>>, <<43471, 43471>>, <<43867, 43867>>,
         <<43882, 43883>>, <<64830, 64831>>, <<65040, 65049>>, <<65072, 65106>>,
         <<65108, 65126>>, <<65128, 65131>>, <<65279, 65279>>, <<65281, 65312>>,
         <<65339, 65344>>, <<65371, 65381>>, <<65392, 65392>>, <<65438, 65439>>,
         <<65504, 65510>>, <<65512, 65518>>, <<65529, 65533>>, <<65792, 65794>>,
         <<65799, 65843>>, <<65847, 65855>>, <<65936, 65948>>, <<66000, 66044>>,
         <<66273, 66299>>, <<113824, 113827>>, <<118608, 118723>>, <<118784, 119029>>,
         <<119040, 119078>>, <<119081, 119142>>, <<119146, 119162>>, <<119171, 119172>>,
         <<119180, 119209>>, <<119214, 119274>>, <<119488, 119507>>, <<119520, 119539>>,
         <<119552, 119638>>, <<119648, 119672>>, <<119808, 119892>>, <<119894, 119964>>,
         <<119966, 119967>>, <<119970, 119970>>, <<119973, 119974>>, <<119977, 119980>>,
         <<119982, 119993>>, <<119995, 119995>>, <<119997, 120003>>, <<120005, 120069>>,
         <<120071, 120074>>, <<120077, 120084>>, <<120086, 120092>>, <<120094, 120121>>,
         <<120123, 120126>>, <<120128, 120132>>, <<120134, 120134>>, <<120138, 120144>>,
         <<120146, 120485>>, <<120488, 120779>>, <<120782, 120831>>, <<126065, 126132>>,
         <<126209, 126269>>, <<126976, 127019>>, <<127024, 127123>>, <<127136, 127150>>,
         <<127153, 127167>>, <<127169, 127183>>, <<127185, 127221>>, <<127232, 127405>>,
         <<127462, 127487>>, <<127489, 127490>>, <<127504, 127547>>, <<127552, 127560>>,
         <<127568, 127569>>, <<127584, 127589>>, <<127744, 128727>>, <<128732, 128748>>,
         <<128752, 128764>>, <<128768, 128886>>, <<128891, 128985>>, <<128992, 129003>>,
         <<129008, 129008>>, <<129024, 129035>>, <<129040, 129095>>, <<129104, 129113>>,
         <<129120, 129159>>, <<129168, 129197>>, <<129200, 129201>>, <<129280, 129619>>,
         <<129632, 129645>>, <<129648, 129660>>, <<129664, 129672>>, <<129680, 129725>>,
         <<129727, 129733>>, <<129742, 129755>>, <<129760, 129768>>, <<129776, 129784>>,
         <<129792, 129938>>, <<129940, 129994>>, <<130032, 130041>>, <<917505, 917505>>,
         <<917536, 917631>>},
     Coptic |->
         {<<994, 1007>>, <<11392, 11507>>, <<11513, 11519>>},
     Cuneiform |->
         {<<73728, 74649>>, <<74752, 74862>>, <<74864, 74868>>, <<74880, 75075>>},
     Cypriot |->
         {<<67584, 67589>>, <<67592, 67592>>, <<67594, 67637>>, <<67639, 67640>>,
         <<67644, 67644>>, <<67647, 67647>>},
     Cypro_Minoan |->
         {<<77712, 77810>>},
     Cyrillic |->
         {<<1024, 1156>>, <<1159, 1327>>, <<7296, 7304>>, <<7467, 7467>>, <<7544, 7544>>,
         <<11744, 11775>>, <<42560, 42655>>, <<65070, 65071>>, <<122928, 122989>>,
         <<123023, 123023>>},
     Deseret |->
         {<<66560, 66639>>},
     Devanagari |->
         {<<2304, 2384>>, <<2389, 2403>>, <<2406, 2431>>, <<43232, 43263>>, <<72448, 72457>>},
     Dives_Akuru |->
         {<<71936, 71942>>, <<71945, 71945>>, <<71948, 71955>>, <<71957, 71958>>,
         <<71960, 71989>>, <<71991, 71992>>, <<71995, 72006>>, <<72016, 72025>>},
     Dogra |->
         {<<71680, 71739>>},
     Duployan |->
         {<<113664, 113770>>, <<113776, 113788>>, <<113792, 113800>>, <<113808, 113817>>,
         <<113820, 113823>>},
     Egyptian_Hieroglyphs |->
         {<<77824, 78933>>},
     Elbasan |->
         {<<66816, 66855>>},
     Elymaic |->
         {<<69600, 69622>>},
     Ethiopic |->
         {<<4608, 4680>>, <<4682, 4685>>, <<4688, 4694>>, <<4696, 4696>>, <<4698, 4701>>,
         <<4704, 4744>>, <<4746, 4749>>, <<4752, 4784>>, <<4786, 4789>>, <<4792, 4798>>,
         <<4800, 4800>>, <<4802, 4805>>, <<4808, 4822>>, <<4824, 4880>>, <<4882, 4885>>,
         <<4888, 4954>>, <<4957, 4988>>, <<4992, 5017>>, <<11648, 11670>>, <<11680, 11686>>,
         <<11688, 11694>>, <<11696, 11702>>, <<11704, 11710>>, <<11712, 11718>>,
         <<11720, 11726>>, <<11728, 11734>>, <<11736, 11742>>, <<43777, 43782>>,
         <<43785, 43790>>, <<43793, 43798>>, <<43808, 43814>>, <<43816, 43822>>,
         <<124896, 124902>>, <<124904, 124907>>, <<124909, 124910>>, <<124912, 124926>>},
     Georgian |->
         {<<4256, 4293>>, <<4295, 4295>>, <<4301, 4301>>, <<4304, 4346>>, <<4348, 4351>>,
         <<7312, 7354>>, <<7357, 7359>>, <<11520, 11557>>, <<11559, 11559>>, <<11565, 11565>>},
     Glagolitic |->
         {<<11264, 11359>>, <<122880, 122886>>, <<122888, 122904>>, <<122907, 122913>>,
         <<122915, 122916>>, <<122918, 122922>>},
     Gothic |->
         {<<66352, 66378>>},
     Grantha |->
         {<<70400, 70403>>, <<70405, 70412>>, <<70415, 70416>>, <<70419, 70440>>,
         <<70442, 70448>>, <<70450, 70451>>, <<70453, 70457>>, <<70460, 70468>>,
         <<70471, 70472>>, <<70475, 70477>>, <<70480, 70480>>, <<70487, 70487>>,
         <<70493, 70499>>, <<70502, 70508>>, <<70512, 70516>>},
     Greek |->
         {<<880, 883>>, <<885, 887>>, <<890, 893>>, <<895, 895>>, <<900, 900>>, <<902, 902>>,
         <<904, 906>>, <<908, 908>>, <<910, 929>>, <<931, 993>>, <<1008, 1023>>, <<7462, 7466>>,
         <<7517, 7521>>, <<7526, 7530>>, <<7615, 7615>>, <<7936, 7957>>, <<7960, 7965>>,
         <<7968, 8005>>, <<8008, 8013>>, <<8016, 8023>>, <<8025, 8025>>, <<8027, 8027>>,
         <<8029, 8029>>, <<8031, 8061>>, <<8064, 8116>>, <<8118, 8132>>, <<8134, 8147>>,
         <<8150, 8155>>, <<8157, 8175>>, <<8178, 8180>>, <<8182, 8190>>, <<8486, 8486>>,
         <<43877, 43877>>, <<65856, 65934>>, <<65952, 65952>>, <<119296, 119365>>},
     Gujarati |->
         {<<2689, 2691>>, <<2693, 2701>>, <<2703, 2705>>, <<2707, 2728>>, <<2730, 2736>>,
         <<2738, 2739>>, <<2741, 2745>>, <<2748, 2757>>, <<2759, 2761>>, <<2763, 2765>>,
         <<2768, 2768>>, <<2784, 2787>>, <<2790, 2801>>, <<2809, 2815>>},
     Gunjala_Gondi |->
         {<<73056, 73061>>, <<73063, 73064>>, <<73066, 73102>>, <<73104, 73105>>,
         <<73107, 73112>>, <<73120, 73129>>},
     Gurmukhi |->
         {<<2561, 2563>>, <<2565, 2570>>, <<2575, 2576>>, <<2579, 2600>>, <<2602, 2608>>,
         <<2610, 2611>>, <<2613, 2614>>, <<2616, 2617>>, <<2620, 2620>>, <<2622, 2626>>,
         <<2631, 2632>>, <<2635, 2637>>, <<2641, 2641>>, <<2649, 2652>>, <<2654, 2654>>,
         <<2662, 2678>>},
     Han |->
         {<<11904, 11929>>, <<11931, 12019>>, <<12032, 12245>>, <<12293, 12293>>,
         <<12295, 12295>>, <<12321, 12329>>, <<12344, 12347>>, <<13312, 19903>>,
         <<19968, 40959>>, <<63744, 64109>>, <<64112, 64217>>, <<94178, 94179>>,
         <<94192, 94193>>, <<131072, 173791>>, <<173824, 177977>>, <<177984, 178205>>,
         <<178208, 183969>>, <<183984, 191456>>, <<194560, 195101>>, <<196608, 201546>>,
         <<201552, 205743>>},
     Hangul |->
         {<<4352, 4607>>, <<12334, 12335>>, <<12593, 12686>>, <<12800, 12830>>, <<12896, 12926>>,
         <<43360, 43388>>, <<44032, 55203>>, <<55216, 55238>>, <<55243, 55291>>,
         <<65440, 65470>>, <<65474, 65479>>, <<65482, 65487>>, <<65490, 65495>>,
         <<65498, 65500>>},
     Hanifi_Rohingya |->
         {<<68864, 68903>>, <<68912, 68921>>},
     Hanunoo |->
         {<<5920, 5940>>},
     Hatran |->
         {<<67808, 67826>>, <<67828, 67829>>, <<67835, 67839>>},
     Hebrew |->
         {<<1425, 1479>>, <<1488, 1514>>, <<1519, 1524>>, <<64285, 64310>>, <<64312, 64316>>,
         <<64318, 64318>>, <<64320, 64321>>, <<64323, 64324>>, <<64326, 64335>>},
     Hiragana |->
         {<<12353, 12438>>, <<12445, 12447>>, <<110593, 110879>>, <<110898, 110898>>,
         <<110928, 110930>>, <<127488, 127488>>},
     Imperial_Aramaic |->
         {<<67648, 67669>>, <<67671, 67679>>},
     Inherited |->
         {<<768, 879>>, <<1157, 1158>>, <<1611, 1621>>, <<1648, 1648>>, <<2385, 2388>>,
         <<6832, 6862>>, <<7376, 7378>>, <<7380, 7392>>, <<7394, 7400>>, <<7405, 7405>>,
         <<7412, 7412>>, <<7416, 7417>>, <<7616, 7679>>, <<8204, 8205>>, <<8400, 8432>>,
         <<12330, 12333>>, <<12441, 12442>>, <<65024, 65039>>, <<65056, 65069>>,
         <<66045, 66045>>, <<66272, 66272>>, <<70459, 70459>>, <<118528, 118573>>,
         <<118576, 118598>>, <<119143, 119145>>, <<119163, 119170>>, <<119173, 119179>>,
         <<119210, 119213>>, <<917760, 917999>>},
     Inscriptional_Pahlavi |->
         {<<68448, 68466>>, <<68472, 68479>>},
     Inscriptional_Parthian |->
         {<<68416, 68437>>, <<68440, 68447>>},
     Javanese |->
         {<<43392, 43469>>, <<43472, 43481>>, <<43486, 43487>>},
     Kaithi |->
         {<<69760, 69826>>, <<69837, 69837>>},
     Kannada |->
         {<<3200, 3212>>, <<3214, 3216>>, <<3218, 3240>>, <<3242, 3251>>, <<3253, 3257>>,
         <<3260, 3268>>, <<3270, 3272>>, <<3274, 3277>>, <<3285, 3286>>, <<3293, 3294>>,
         <<3296, 3299>>, <<3302, 3311>>, <<3313, 3315>>},
     Katakana |->
         {<<12449, 12538>>, <<12541, 12543>>, <<12784, 12799>>, <<13008, 13054>>,
         <<13056, 13143>>, <<65382, 65391>>, <<65393, 65437>>, <<110576, 110579>>,
         <<110581, 110587>>, <<110589, 110590>>, <<110592, 110592>>, <<110880, 110882>>,
         <<110933, 110933>>, <<110948, 110951>>},
     Kawi |->
         {<<73472, 73488>>, <<73490, 73530>>, <<73534, 73561>>},
     Kayah_Li |->
         {<<43264, 43309>>, <<43311, 43311>>},
     Kharoshthi |->
         {<<68096, 68099>>, <<68101, 68102>>, <<68108, 68115>>, <<68117, 68119>>,
         <<68121, 68149>>, <<68152, 68154>>, <<68159, 68168>>, <<68176, 68184>>},
     Khitan_Small_Script |->
         {<<94180, 94180>>, <<101120, 101589>>},
     Khmer |->
         {<<6016, 6109>>, <<6112, 6121>>, <<6128, 6137>>, <<6624, 6655>>},
     Khojki |->
         {<<70144, 70161>>, <<70163, 70209>>},
     Khudawadi |->
         {<<70320, 70378>>, <<70384, 70393>>},
     Lao |->
         {<<3713, 3714>>, <<3716, 3716>>, <<3718, 3722>>, <<3724, 3747>>, <<3749, 3749>>,
         <<3751, 3773>>, <<3776, 3780>>, <<3782, 3782>>, <<3784, 3790>>, <<3792, 3801>>,
         <<3804, 3807>>},
     Latin |->
         {<<65, 90>>, <<97, 122>>, <<170, 170>>, <<186, 186>>, <<192, 214>>, <<216, 246>>,
         <<248, 696>>, <<736, 740>>, <<7424, 7461>>, <<7468, 7516>>, <<7522, 7525>>,
         <<7531, 7543>>, <<7545, 7614>>, <<7680, 7935>>, <<8305, 8305>>, <<8319, 8319>>,
         <<8336, 8348>>, <<8490, 8491>>, <<8498, 8498>>, <<8526, 8526>>, <<8544, 8584>>,
         <<11360, 11391>>, <<42786, 42887>>, <<42891, 42954>>, <<42960, 42961>>,
         <<42963, 42963>>, <<42965, 42969>>, <<42994, 43007>>, <<43824, 43866>>,
         <<43868, 43876>>, <<43878, 43881>>, <<64256, 64262>>, <<65313, 65338>>,
         <<65345, 65370>>, <<67456, 67461>>, <<67463, 67504>>, <<67506, 67514>>,
         <<122624, 122654>>, <<122661, 122666>>},
     Lepcha |->
         {<<7168, 7223>>, <<7227, 7241>>, <<7245, 7247>>},
     Limbu |->
         {<<6400, 6430>>, <<6432, 6443>>, <<6448, 6459>>, <<6464, 6464>>, <<6468, 6479>>},
     Linear_A |->
         {<<67072, 67382>>, <<67392, 67413>>, <<67424, 67431>>},
     Linear_B |->
         {<<65536, 65547>>, <<65549, 65574>>, <<65576, 65594>>, <<65596, 65597>>,
         <<65599, 65613>>, <<65616, 65629>>, <<65664, 65786>>},
     Lisu |->
         {<<42192, 42239>>, <<73648, 73648>>},
     Lycian |->
         {<<66176, 66204>>},
     Lydian |->
         {<<67872, 67897>>, <<67903, 67903>>},
     Mahajani |->
         {<<69968, 70006>>},
     Makasar |->
         {<<73440, 73464>>},
     Malayalam |->
         {<<3328, 3340>>, <<3342, 3344>>, <<3346, 3396>>, <<3398, 3400>>, <<3402, 3407>>,
         <<3412, 3427>>, <<3430, 3455>>},
     Mandaic |->
         {<<2112, 2139>>, <<2142, 2142>>},
     Manichaean |->
         {<<68288, 68326>>, <<68331, 68342>>},
     Marchen |->
         {<<72816, 72847>>, <<72850, 72871>>, <<72873, 72886>>},
     Masaram_Gondi |->
         {<<72960, 72966>>, <<72968, 72969>>, <<72971, 73014>>, <<73018, 73018>>,
         <<73020, 73021>>, <<73023, 73031>>, <<73040, 73049>>},
     Medefaidrin |->
         {<<93760, 93850>>},
     Meetei_Mayek |->
         {<<43744, 43766>>, <<43968, 44013>>, <<44016, 44025>>},
     Mende_Kikakui |->
         {<<124928, 125124>>, <<125127, 125142>>},
     Meroitic_Cursive |->
         {<<68000, 68023>>, <<68028, 68047>>, <<68050, 68095>>},
     Meroitic_Hieroglyphs |->
         {<<67968, 67999>>},
     Miao |->
         {<<93952, 94026>>, <<94031, 94087>>, <<94095, 94111>>},
     Modi |->
         {<<71168, 71236>>, <<71248, 71257>>},
     Mongolian |->
         {<<6144, 6145>>, <<6148, 6148>>, <<6150, 6169>>, <<6176, 6264>>, <<6272, 6314>>,
         <<71264, 71276>>},
     Mro |->
         {<<92736, 92766>>, <<92768, 92777>>, <<92782, 92783>>},
     Multani |->
         {<<70272, 70278>>, <<70280, 70280>>, <<70282, 70285>>, <<70287, 70301>>,
         <<70303, 70313>>},
     Myanmar |->
         {<<4096, 4255>>, <<43488, 43518>>, <<43616, 43647>>},
     Nabataean |->
         {<<67712, 67742>>, <<67751, 67759>>},
     Nag_Mundari |->
         {<<124112, 124153>>},
     Nandinagari |->
         {<<72096, 72103>>, <<72106, 72151>>, <<72154, 72164>>},
     New_Tai_Lue |->
         {<<6528, 6571>>, <<6576, 6601>>, <<6608, 6618>>, <<6622, 6623>>},
     Newa |->
         {<<70656, 70747>>, <<70749, 70753>>},
     Nko |->
         {<<1984, 2042>>, <<2045, 2047>>},
     Nushu |->
         {<<94177, 94177>>, <<110960, 111355>>},
     Nyiakeng_Puachue_Hmong |->
         {<<123136, 123180>>, <<123184, 123197>>, <<123200, 123209>>, <<123214, 123215>>},
     Ogham |->
         {<<5760, 5788>>},
     Ol_Chiki |->
         {<<7248, 7295>>},
     Old_Hungarian |->
         {<<68736, 68786>>, <<68800, 68850>>, <<68858, 68863>>},
     Old_Italic |->
         {<<66304, 66339>>, <<66349, 66351>>},
     Old_North_Arabian |->
         {<<68224, 68255>>},
     Old_Permic |->
         {<<66384, 66426>>},
     Old_Persian |->
         {<<66464, 66499>>, <<66504, 66517>>},
     Old_Sogdian |->
         {<<69376, 69415>>},
     Old_South_Arabian |->
         {<<68192, 68223>>},
     Old_Turkic |->
         {<<68608, 68680>>},
     Old_Uyghur |->
         {<<69488, 69513>>},
     Oriya |->
         {<<2817, 2819>>, <<2821, 2828>>, <<2831, 2832>>, <<2835, 2856>>, <<2858, 2864>>,
         <<2866, 2867>>, <<2869, 2873>>, <<2876, 2884>>, <<2887, 2888>>, <<2891, 2893>>,
         <<2901, 2903>>, <<2908, 2909>>, <<2911, 2915>>, <<2918, 2935>>},
     Osage |->
         {<<66736, 66771>>, <<66776, 66811>>},
     Osmanya |->
         {<<66688, 66717>>, <<66720, 66729>>},
     Pahawh_Hmong |->
         {<<92928, 92997>>, <<93008, 93017>>, <<93019, 93025>>, <<93027, 93047>>,
         <<93053, 93071>>},
     Palmyrene |->
         {<<67680, 67711>>},
     Pau_Cin_Hau |->
         {<<72384, 72440>>},
     Phags_Pa |->
         {<<43072, 43127>>},
     Phoenician |->
         {<<67840, 67867>>, <<67871, 67871>>},
     Psalter_Pahlavi |->
         {<<68480, 68497>>, <<68505, 68508>>, <<68521, 68527>>},
     Rejang |->
         {<<43312, 43347>>, <<43359, 43359>>},
     Runic |->
         {<<5792, 5866>>, <<5870, 5880>>},
     Samaritan |->
         {<<2048, 2093>>, <<2096, 2110>>},
     Saurashtra |->
         {<<43136, 43205>>, <<43214, 43225>>},
     Sharada |->
         {<<70016, 70111>>},
     Shavian |->
         {<<66640, 66687>>},
     Siddham |->
         {<<71040, 71093>>, <<71096, 71133>>},
     SignWriting |->
         {<<120832, 121483>>, <<121499, 121503>>, <<121505, 121519>>},
     Sinhala |->
         {<<3457, 3459>>, <<3461, 3478>>, <<3482, 3505>>, <<3507, 3515>>, <<3517, 3517>>,
         <<3520, 3526>>, <<3530, 3530>>, <<3535, 3540>>, <<3542, 3542>>, <<3544, 3551>>,
         <<3558, 3567>>, <<3570, 3572>>, <<70113, 70132>>},
     Sogdian |->
         {<<69424, 69465>>},
     Sora_Sompeng |->
         {<<69840, 69864>>, <<69872, 69881>>},
     Soyombo |->
         {<<72272, 72354>>},
     Sundanese |->
         {<<7040, 7103>>, <<7360, 7367>>},
     Syloti_Nagri |->
         {<<43008, 43052>>},
     Syriac |->
         {<<1792, 1805>>, <<1807, 1866>>, <<1869, 1871>>, <<2144, 2154>>},
     Tagalog |->
         {<<5888, 5909>>, <<5919, 5919>>},
     Tagbanwa |->
         {<<5984, 5996>>, <<5998, 6000>>, <<6002, 6003>>},
     Tai_Le |->
         {<<6480, 6509>>, <<6512, 6516>>},
     Tai_Tham |->
         {<<6688, 6750>>, <<6752, 6780>>, <<6783, 6793>>, <<6800, 6809>>, <<6816, 6829>>},
     Tai_Viet |->
         {<<43648, 43714>>, <<43739, 43743>>},
     Takri |->
         {<<71296, 71353>>, <<71360, 71369>>},
     Tamil |->
         {<<2946, 2947>>, <<2949, 2954>>, <<2958, 2960>>, <<2962, 2965>>, <<2969, 2970>>,
         <<2972, 2972>>, <<2974, 2975>>, <<2979, 2980>>, <<2984, 2986>>, <<2990, 3001>>,
         <<3006, 3010>>, <<3014, 3016>>, <<3018, 3021>>, <<3024, 3024>>, <<3031, 3031>>,
         <<3046, 3066>>, <<73664, 73713>>, <<73727, 73727>>},
     Tangsa |->
         {<<92784, 92862>>, <<92864, 92873>>},
     Tangut |->
         {<<94176, 94176>>, <<94208, 100343>>, <<100352, 101119>>, <<101632, 101640>>},
     Telugu |->
         {<<3072, 3084>>, <<3086, 3088>>, <<3090, 3112>>, <<3114, 3129>>, <<3132, 3140>>,
         <<3142, 3144>>, <<3146, 3149>>, <<3157, 3158>>, <<3160, 3162>>, <<3165, 3165>>,
         <<3168, 3171>>, <<3174, 3183>>, <<3191, 3199>>},
     Thaana |->
         {<<1920, 1969>>},
     Thai |->
         {<<3585, 3642>>, <<3648, 3675>>},
     Tibetan |->
         {<<3840, 3911>>, <<3913, 3948>>, <<3953, 3991>>, <<3993, 4028>>, <<4030, 4044>>,
         <<4046, 4052>>, <<4057, 4058>>},
     Tifinagh |->
         {<<11568, 11623>>, <<11631, 11632>>, <<11647, 11647>>},
     Tirhuta |->
         {<<70784, 70855>>, <<70864, 70873>>},
     Toto |->
         {<<123536, 123566>>},
     Ugaritic |->
         {<<66432, 66461>>, <<66463, 66463>>},
     Vai |->
         {<<42240, 42539>>},
     Vithkuqi |->
         {<<66928, 66938>>, <<66940, 66954>>, <<66956, 66962>>, <<66964, 66965>>,
         <<66967, 66977>>, <<66979, 66993>>, <<66995, 67001>>, <<67003, 67004>>},
     Wancho |->
         {<<123584, 123641>>, <<123647, 123647>>},
     Warang_Citi |->
         {<<71840, 71922>>, <<71935, 71935>>},
     Yezidi |->
         {<<69248, 69289>>, <<69291, 69293>>, <<69296, 69297>>},
     Yi |->
         {<<40960, 42124>>, <<42128, 42182>>},
     Zanabazar_Square |->
         {<<72192, 72263>>}]

\* the string of the characters of a text
RECURSIVE Str(_)
Str(s) == IF s = <<>> THEN "" ELSE Head(s) \o Str(Tail(s))

\* the categories of one letter are those of the categories of two that
\* begin with it
MajorCategories == {"C", "L", "M", "N", "P", "S", "Z"}

\* the names of unicode.Categories and unicode.Scripts, and Any
UnicodeNames ==
    {"Any"} \cup MajorCategories \cup DOMAIN UnicodeCategories \cup DOMAIN UnicodeScripts

\* unicodeTable(name): the ranges of the table of a name of UnicodeNames
UnicodeClass(name) ==
    IF name = "Any" THEN {<<0, MaxRune>>}
    ELSE IF name \in MajorCategories
         THEN UNION {UnicodeCategories[n] :
                         n \in {m \in DOMAIN UnicodeCategories : SubSeq(m, 1, 1) = name}}
    ELSE IF name \in DOMAIN UnicodeCategories THEN UnicodeCategories[name]
    ELSE UnicodeScripts[name]

IsOctal(c) == c \in {"0", "1", "2", "3", "4", "5", "6", "7"}
IsAlnum(c) == IsDigit(c) \/ (\E k \in 1..26 : LowerLetters[k] = lower(c))

\* the value of the hexadecimal digits s[i..j], MaxRune + 1 when above MaxRune
RECURSIVE HexRune(_, _, _, _)
HexRune(s, i, j, v) ==
    IF i > j THEN v
    ELSE IF v * 16 + HexVal(s[i]) > MaxRune THEN MaxRune + 1
    ELSE HexRune(s, i + 1, j, v * 16 + HexVal(s[i]))

NoEscape == [ok |-> FALSE, code |-> 0, i |-> 0]

\* the code point read and the index after it
Rune(code, i) == [ok |-> TRUE, code |-> code, i |-> i]

\* an octal escape: the digits from s[i], more of them at most, after the
\* value r
RECURSIVE octalEscape(_, _, _, _)
octalEscape(s, i, more, r) ==
    IF more = 0 \/ i > Len(s) \/ ~IsOctal(s[i]) THEN Rune(r, i)
    ELSE octalEscape(s, i + 1, more - 1, r * 8 + DigitVal(s[i]))

\* a hexadecimal escape of the value v, well formed or not, that ends before
\* s[i]
hexEscape(formed, v, i) == IF formed /\ v <= MaxRune THEN Rune(v, i) ELSE NoEscape

\* \x{...} with the first closing brace at s[close], 0 when there is none
hexBraces(s, i, close) ==
    hexEscape(close > i + 3 /\ \A k \in (i + 3)..(close - 1) : IsHex(s[k]),
              HexRune(s, i + 3, close - 1, 0), close + 1)

\* the escape of one character c that stands for itself or for a control
\* character
charEscape(c, i, code) ==
    CASE c = "a" -> Rune(7, i)
      [] c = "f" -> Rune(12, i)
      [] c = "n" -> Rune(10, i)
      [] c = "r" -> Rune(13, i)
      [] c = "t" -> Rune(9, i)
      [] c = "v" -> Rune(11, i)
      [] OTHER -> IF code < 128 /\ ~IsAlnum(c) THEN Rune(code, i) ELSE NoEscape

\* parseEscape at the backslash s[i], c the character after it
escapeOf(s, i, c) ==
    IF c \in {"1", "2", "3", "4", "5", "6", "7"} /\ ~(i + 2 <= Len(s) /\ IsOctal(s[i + 2]))
    THEN NoEscape
    ELSE IF IsOctal(c) THEN octalEscape(s, i + 2, 2, DigitVal(c))
    ELSE IF c = "x" /\ i + 2 <= Len(s) /\ s[i + 2] = "{"
         THEN hexBraces(s, i, IndexFrom(s, i + 3, "}"))
    ELSE IF c = "x"
         THEN (IF i + 3 <= Len(s) /\ IsHex(s[i + 2]) /\ IsHex(s[i + 3])
               THEN Rune(HexRune(s, i + 2, i + 3, 0), i + 4)
               ELSE NoEscape)
    ELSE charEscape(c, i + 2, Code(c))

\* parseEscape at the backslash s[i]: the code point and the index after it
parseEscape(s, i) == IF i + 1 > Len(s) THEN NoEscape ELSE escapeOf(s, i, s[i + 1])

\* parseClassChar at s[i]
parseClassChar(s, i) ==
    IF i > Len(s) THEN NoEscape
    ELSE IF s[i] = "\\" THEN parseEscape(s, i)
    ELSE Rune(Code(s[i]), i + 1)

NoItem == [ok |-> FALSE, item |-> Item({}, FALSE), i |-> 0]

ClassItem(ranges, neg, i) == [ok |-> TRUE, item |-> Item(ranges, neg), i |-> i]

\* the class of the name of a Unicode table
unicodeNamed(name, neg, i) ==
    IF name \in UnicodeNames THEN ClassItem(UnicodeClass(name), neg, i) ELSE NoItem

\* the class of a name as it is written, with a caret or without one
unicodeWritten(raw, neg, i) ==
    unicodeNamed(Str(IF raw # <<>> /\ Head(raw) = "^" THEN Tail(raw) ELSE raw),
                 neg # (raw # <<>> /\ Head(raw) = "^"), i)

\* \p or \P at the backslash s[i]: one letter, or a name in braces that end
\* at s[close]
unicodeBraces(s, i, braces, close) ==
    IF braces /\ close = 0 THEN NoItem
    ELSE unicodeWritten(IF braces THEN SubSeq(s, i + 3, close - 1) ELSE <<s[i + 2]>>,
                        s[i + 1] = "P", IF braces THEN close + 1 ELSE i + 3)

\* parseUnicodeClass at the backslash s[i] of \p or \P
parseUnicodeClass(s, i) ==
    IF i + 2 > Len(s) THEN NoItem
    ELSE unicodeBraces(s, i, s[i + 2] = "{", IndexFrom(s, i, "}"))

\* parsePerlClassEscape at the backslash s[i] of \d \s \w \D \S \W
parsePerlClassEscape(s, i) ==
    ClassItem(PerlClass(lower(s[i + 1])), s[i + 1] \in {"D", "S", "W"}, i + 2)

\* the index of the first ":]" from s[i] on, 0 when there is none
RECURSIVE IndexColon(_, _)
IndexColon(s, i) ==
    IF i + 1 > Len(s) THEN 0
    ELSE IF s[i] = ":" /\ s[i + 1] = "]" THEN i
    ELSE IndexColon(s, i + 1)

\* the class of a POSIX name as it is written, with a caret or without one
posixWritten(raw, i) ==
    IF raw # <<>> /\ Head(raw) = "^"
    THEN (IF Tail(raw) \in PosixNames THEN ClassItem(PosixClass(Tail(raw)), TRUE, i)
          ELSE NoItem)
    ELSE IF raw \in PosixNames THEN ClassItem(PosixClass(raw), FALSE, i)
    ELSE NoItem

\* parseNamedClass at the "[:" of s[i]: the ":]" is at s[colon]
parseNamedClass(s, i, colon) == posixWritten(SubSeq(s, i + 2, colon - 1), colon + 2)

\* a range from lo to hi
classRangeTo(lo, hi) ==
    IF hi.ok /\ lo.code <= hi.code THEN ClassItem({<<lo.code, hi.code>>}, FALSE, hi.i)
    ELSE NoItem

\* the one character lo, or the range that begins with it
classRange(s, lo) ==
    IF ~lo.ok THEN NoItem
    ELSE IF lo.i + 1 <= Len(s) /\ s[lo.i] = "-" /\ s[lo.i + 1] # "]"
         THEN classRangeTo(lo, parseClassChar(s, lo.i + 1))
    ELSE ClassItem({<<lo.code, lo.code>>}, FALSE, lo.i)

\* the item of a class at s[i]
classItem(s, i) ==
    IF i + 2 <= Len(s) /\ s[i] = "[" /\ s[i + 1] = ":" /\ IndexColon(s, i + 2) > 0
    THEN parseNamedClass(s, i, IndexColon(s, i + 2))
    ELSE IF s[i] = "\\" /\ i + 1 <= Len(s) /\ s[i + 1] \in {"p", "P"}
         THEN parseUnicodeClass(s, i)
    ELSE IF s[i] = "\\" /\ i + 1 <= Len(s) /\ s[i + 1] \in {"d", "s", "w", "D", "S", "W"}
         THEN parsePerlClassEscape(s, i)
    ELSE classRange(s, parseClassChar(s, i))

InRanges(code, ranges) == \E r \in ranges : r[1] <= code /\ code <= r[2]

\* unicode.SimpleFold: <<lo, hi, stride, delta>> tells that the code points
\* lo, lo + stride, ... up to hi fold to themselves plus delta (the simple
\* case foldings C and S of Unicode 15.0.0); any other one folds to itself
FoldRanges ==
    {<<65, 90, 1, 32>>, <<181, 181, 1, 775>>, <<192, 214, 1, 32>>, <<216, 222, 1, 32>>,
     <<256, 302, 2, 1>>, <<306, 310, 2, 1>>, <<313, 327, 2, 1>>, <<330, 374, 2, 1>>,
     <<376, 376, 1, 0 - 121>>, <<377, 381, 2, 1>>, <<383, 383, 1, 0 - 268>>,
     <<385, 385, 1, 210>>, <<386, 388, 2, 1>>, <<390, 390, 1, 206>>, <<391, 391, 1, 1>>,
     <<393, 394, 1, 205>>, <<395, 395, 1, 1>>, <<398, 398, 1, 79>>, <<399, 399, 1, 202>>,
     <<400, 400, 1, 203>>, <<401, 401, 1, 1>>, <<403, 403, 1, 205>>, <<404, 404, 1, 207>>,
     <<406, 406, 1, 211>>, <<407, 407, 1, 209>>, <<408, 408, 1, 1>>, <<412, 412, 1, 211>>,
     <<413, 413, 1, 213>>, <<415, 415, 1, 214>>, <<416, 420, 2, 1>>, <<422, 422, 1, 218>>,
     <<423, 423, 1, 1>>, <<425, 425, 1, 218>>, <<428, 428, 1, 1>>, <<430, 430, 1, 218>>,
     <<431, 431, 1, 1>>, <<433, 434, 1, 217>>, <<435, 437, 2, 1>>, <<439, 439, 1, 219>>,
     <<440, 440, 1, 1>>, <<444, 444, 1, 1>>, <<452, 452, 1, 2>>, <<453, 453, 1, 1>>,
     <<455, 455, 1, 2>>, <<456, 456, 1, 1>>, <<458, 458, 1, 2>>, <<459, 475, 2, 1>>,
     <<478, 494, 2, 1>>, <<497, 497, 1, 2>>, <<498, 500, 2, 1>>, <<502, 502, 1, 0 - 97>>,
     <<503, 503, 1, 0 - 56>>, <<504, 542, 2, 1>>, <<544, 544, 1, 0 - 130>>, <<546, 562, 2, 1>>,
     <<570, 570, 1, 10795>>, <<571, 571, 1, 1>>, <<573, 573, 1, 0 - 163>>,
     <<574, 574, 1, 10792>>, <<577, 577, 1, 1>>, <<579, 579, 1, 0 - 195>>, <<580, 580, 1, 69>>,
     <<581, 581, 1, 71>>, <<582, 590, 2, 1>>, <<837, 837, 1, 116>>, <<880, 882, 2, 1>>,
     <<886, 886, 1, 1>>, <<895, 895, 1, 116>>, <<902, 902, 1, 38>>, <<904, 906, 1, 37>>,
     <<908, 908, 1, 64>>, <<910, 911, 1, 63>>, <<913, 929, 1, 32>>, <<931, 939, 1, 32>>,
     <<962, 962, 1, 1>>, <<975, 975, 1, 8>>, <<976, 976, 1, 0 - 30>>, <<977, 977, 1, 0 - 25>>,
     <<981, 981, 1, 0 - 15>>, <<982, 982, 1, 0 - 22>>, <<984, 1006, 2, 1>>,
     <<1008, 1008, 1, 0 - 54>>, <<1009, 1009, 1, 0 - 48>>, <<1012, 1012, 1, 0 - 60>>,
     <<1013, 1013, 1, 0 - 64>>, <<1015, 1015, 1, 1>>, <<1017, 1017, 1, 0 - 7>>,
     <<1018, 1018, 1, 1>>, <<1021, 1023, 1, 0 - 130>>, <<1024, 1039, 1, 80>>,
     <<1040, 1071, 1, 32>>, <<1120, 1152, 2, 1>>, <<1162, 1214, 2, 1>>, <<1216, 1216, 1, 15>>,
     <<1217, 1229, 2, 1>>, <<1232, 1326, 2, 1>>, <<1329, 1366, 1, 48>>, <<4256, 4293, 1, 7264>>,
     <<4295, 4295, 1, 7264>>, <<4301, 4301, 1, 7264>>, <<5112, 5117, 1, 0 - 8>>,
     <<7296, 7296, 1, 0 - 6222>>, <<7297, 7297, 1, 0 - 6221>>, <<7298, 7298, 1, 0 - 6212>>,
     <<7299, 7300, 1, 0 - 6210>>, <<7301, 7301, 1, 0 - 6211>>, <<7302, 7302, 1, 0 - 6204>>,
     <<7303, 7303, 1, 0 - 6180>>, <<7304, 7304, 1, 35267>>, <<7312, 7354, 1, 0 - 3008>>,
     <<7357, 7359, 1, 0 - 3008>>, <<7680, 7828, 2, 1>>, <<7835, 7835, 1, 0 - 58>>,
     <<7838, 7838, 1, 0 - 7615>>, <<7840, 7934, 2, 1>>, <<7944, 7951, 1, 0 - 8>>,
     <<7960, 7965, 1, 0 - 8>>, <<7976, 7983, 1, 0 - 8>>, <<7992, 7999, 1, 0 - 8>>,
     <<8008, 8013, 1, 0 - 8>>, <<8025, 8031, 2, 0 - 8>>, <<8040, 8047, 1, 0 - 8>>,
     <<8072, 8079, 1, 0 - 8>>, <<8088, 8095, 1, 0 - 8>>, <<8104, 8111, 1, 0 - 8>>,
     <<8120, 8121, 1, 0 - 8>>, <<8122, 8123, 1, 0 - 74>>, <<8124, 8124, 1, 0 - 9>>,
     <<8126, 8126, 1, 0 - 7173>>, <<8136, 8139, 1, 0 - 86>>, <<8140, 8140, 1, 0 - 9>>,
     <<8152, 8153, 1, 0 - 8>>, <<8154, 8155, 1, 0 - 100>>, <<8168, 8169, 1, 0 - 8>>,
     <<8170, 8171, 1, 0 - 112>>, <<8172, 8172, 1, 0 - 7>>, <<8184, 8185, 1, 0 - 128>>,
     <<8186, 8187, 1, 0 - 126>>, <<8188, 8188, 1, 0 - 9>>, <<8486, 8486, 1, 0 - 7517>>,
     <<8490, 8490, 1, 0 - 8383>>, <<8491, 8491, 1, 0 - 8262>>, <<8498, 8498, 1, 28>>,
     <<8544, 8559, 1, 16>>, <<8579, 8579, 1, 1>>, <<9398, 9423, 1, 26>>,
     <<11264, 11311, 1, 48>>, <<11360, 11360, 1, 1>>, <<11362, 11362, 1, 0 - 10743>>,
     <<11363, 11363, 1, 0 - 3814>>, <<11364, 11364, 1, 0 - 10727>>, <<11367, 11371, 2, 1>>,
     <<11373, 11373, 1, 0 - 10780>>, <<11374, 11374, 1, 0 - 10749>>,
     <<11375, 11375, 1, 0 - 10783>>, <<11376, 11376, 1, 0 - 10782>>, <<11378, 11378, 1, 1>>,
     <<11381, 11381, 1, 1>>, <<11390, 11391, 1, 0 - 10815>>, <<11392, 11490, 2, 1>>,
     <<11499, 11501, 2, 1>>, <<11506, 11506, 1, 1>>, <<42560, 42604, 2, 1>>,
     <<42624, 42650, 2, 1>>, <<42786, 42798, 2, 1>>, <<42802, 42862, 2, 1>>,
     <<42873, 42875, 2, 1>>, <<42877, 42877, 1, 0 - 35332>>, <<42878, 42886, 2, 1>>,
     <<42891, 42891, 1, 1>>, <<42893, 42893, 1, 0 - 42280>>, <<42896, 42898, 2, 1>>,
     <<42902, 42920, 2, 1>>, <<42922, 42922, 1, 0 - 42308>>, <<42923, 42923, 1, 0 - 42319>>,
     <<42924, 42924, 1, 0 - 42315>>, <<42925, 42925, 1, 0 - 42305>>,
     <<42926, 42926, 1, 0 - 42308>>, <<42928, 42928, 1, 0 - 42258>>,
     <<42929, 42929, 1, 0 - 42282>>, <<42930, 42930, 1, 0 - 42261>>, <<42931, 42931, 1, 928>>,
     <<42932, 42946, 2, 1>>, <<42948, 42948, 1, 0 - 48>>, <<42949, 42949, 1, 0 - 42307>>,
     <<42950, 42950, 1, 0 - 35384>>, <<42951, 42953, 2, 1>>, <<42960, 42960, 1, 1>>,
     <<42966, 42968, 2, 1>>, <<42997, 42997, 1, 1>>, <<43888, 43967, 1, 0 - 38864>>,
     <<65313, 65338, 1, 32>>, <<66560, 66599, 1, 40>>, <<66736, 66771, 1, 40>>,
     <<66928, 66938, 1, 39>>, <<66940, 66954, 1, 39>>, <<66956, 66962, 1, 39>>,
     <<66964, 66965, 1, 39>>, <<68736, 68786, 1, 64>>, <<71840, 71871, 1, 32>>,
     <<93760, 93791, 1, 32>>, <<125184, 125217, 1, 34>>}

\* code is one of the code points of the range r of FoldRanges
Folds(r, code) == r[1] <= code /\ code <= r[2] /\ (code - r[1]) % r[3] = 0

\* the code point that stands for code and for those that differ from it
\* in case only
Fold(code) ==
    IF \E r \in FoldRanges : Folds(r, code)
    THEN code + (CHOOSE r \in FoldRanges : Folds(r, code))[4]
    ELSE code

\* the code points that f stands for
Folded(f) == {f} \cup {f - r[4] : r \in {q \in FoldRanges : Folds(q, f - q[4])}}

\* the least of the numbers S, of which there is one
Least(S) == CHOOSE x \in S : \A y \in S : x <= y

\* the orbit of unicode.SimpleFold: code and the code points that differ
\* from it in case only
Orbit(code) == Folded(Fold(code))

\* unicode.SimpleFold(code): the next code point of the orbit, the least one
\* after the greatest
SimpleFold(code) ==
    IF \E x \in Orbit(code) : x > code THEN Least({x \in Orbit(code) : x > code})
    ELSE Least(Orbit(code))

\* minFoldRune(code): the least code point of the orbit
minFoldRune(code) == Least(Orbit(code))

\* the ranges from the code points starts to those of ends
cleanRanges(starts, ends) == {<<lo, Least({hi \in ends : hi >= lo})>> : lo \in starts}

\* cleanClass: the ranges, which may overlap and abut, as the ranges of the
\* same code points that are sorted, apart and as long as they can be; a
\* class is the set of them
cleanClass(ranges) ==
    cleanRanges({r[1] : r \in {x \in ranges : ~InRanges(x[1] - 1, ranges)}},
                {r[2] : r \in {x \in ranges : ~InRanges(x[2] + 1, ranges)}})

\* the ranges of the code points between the ranges, which begin at starts
negatedRanges(ranges, starts) ==
    {<<lo, IF \E r \in ranges : r[1] > lo
           THEN Least({r[1] : r \in {x \in ranges : x[1] > lo}}) - 1
           ELSE MaxRune>> : lo \in starts}

\* negateClass, appendNegatedClass: the class of the code points of no range
negateClass(ranges) ==
    negatedRanges(ranges,
                  {lo \in {0} \cup {r[2] + 1 : r \in ranges} :
                      lo <= MaxRune /\ ~InRanges(lo, ranges)})

\* the code points lo, lo + stride, ... of the range d of FoldRanges
FoldPoints(d) == {c \in d[1]..d[2] : (c - d[1]) % d[3] = 0}

\* the code points that those of the ranges fold to
FoldImages(ranges) ==
    UNION {{<<c + d[4], c + d[4]>> : c \in {x \in FoldPoints(d) : InRanges(x, ranges)}} :
              d \in FoldRanges}

\* the code points that fold to those of the ranges
FoldSources(ranges) ==
    UNION {{<<c, c>> : c \in {x \in FoldPoints(d) : InRanges(x + d[4], ranges)}} :
              d \in FoldRanges}

\* the ranges with the code points that fold to theirs
WithFoldSources(ranges) == ranges \cup FoldSources(ranges)

\* appendFoldedRange, appendFoldedClass and the fold tables of package
\* unicode: the ranges with the orbits of their code points
appendFoldedClass(ranges) == WithFoldSources(ranges \cup FoldImages(ranges))

\* appendLiteral: the ranges of the code point of a literal
appendLiteral(code, fold) == IF fold THEN {<<x, x>> : x \in Orbit(code)} ELSE {<<code, code>>}

\* appendGroup, appendRange and parseUnicodeClass for one item of a class:
\* its ranges, folded under FoldCase, negated after that for an item that
\* is written as negated
appendItem(item, ranges) == IF item.neg THEN negateClass(ranges) ELSE ranges

ItemRanges(item, fold) ==
    appendItem(item, IF fold THEN appendFoldedClass(item.ranges) ELSE item.ranges)

\* the items from s[i] on: those of a class in brackets up to the closing
\* bracket, or the one item of an escape (single)
RECURSIVE classLoop(_, _, _, _, _)
RECURSIVE classNext(_, _, _, _)
classLoop(s, i, items, first, single) ==
    IF single /\ ~first THEN [ok |-> TRUE, items |-> items, i |-> i]
    ELSE IF i > Len(s) THEN [ok |-> FALSE, items |-> {}, i |-> i]
    ELSE IF s[i] = "]" /\ ~first /\ ~single THEN [ok |-> TRUE, items |-> items, i |-> i + 1]
    ELSE classNext(s, items, classItem(s, i), single)

\* r is the item read
classNext(s, items, r, single) ==
    IF r.ok THEN classLoop(s, r.i, items \cup {r.item}, FALSE, single)
    ELSE [ok |-> FALSE, items |-> {}, i |-> r.i]

\* the class of the items r read: cleaned, and negated after a caret
classOf(r, neg, fold) ==
    [ok |-> r.ok,
     cls |-> IF ~r.ok THEN {}
             ELSE IF neg THEN negateClass(UNION {ItemRanges(item, fold) : item \in r.items})
             ELSE cleanClass(UNION {ItemRanges(item, fold) : item \in r.items}),
     i |-> r.i]

\* parseClass at the '[' s[i], and parseUnicodeClass and parsePerlClassEscape
\* at the backslash s[i] of \p \P \d \s \w \D \S \W outside brackets
parseClass(s, i, fold) ==
    classOf(classLoop(s, IF s[i] = "\\" THEN i
                         ELSE IF i + 1 <= Len(s) /\ s[i + 1] = "^" THEN i + 2 ELSE i + 1,
                      {}, TRUE, s[i] = "\\"),
            s[i] = "[" /\ i + 1 <= Len(s) /\ s[i + 1] = "^", fold)

\* a natural number from s[i]: -1 for ten digits or more
RECURSIVE intLoop(_, _, _)
intLoop(s, i, n) ==
    IF i > Len(s) \/ ~IsDigit(s[i]) THEN [ok |-> TRUE, n |-> n, i |-> i]
    ELSE intLoop(s, i + 1,
                 IF n < 0 \/ n >= 100000000 THEN 0 - 1 ELSE n * 10 + DigitVal(s[i]))

\* a natural number without leading zeros from s[i]
parseInt(s, i) ==
    IF i > Len(s) \/ ~IsDigit(s[i]) \/ (i + 1 <= Len(s) /\ s[i] = "0" /\ IsDigit(s[i + 1]))
    THEN [ok |-> FALSE, n |-> 0, i |-> i]
    ELSE intLoop(s, i, 0)

NoRepeat(i) == [ok |-> FALSE, min |-> 0, max |-> 0, i |-> i]

\* {lo,hi}: hi is read up to the closing brace
repeatMax(s, i, lo, hi) ==
    IF ~hi.ok \/ hi.i > Len(s) \/ s[hi.i] # "}" THEN NoRepeat(i)
    ELSE [ok |-> TRUE, min |-> IF hi.n < 0 THEN 0 - 1 ELSE lo.n, max |-> hi.n, i |-> hi.i + 1]

\* {lo}, {lo,} or {lo,hi} after lo is read
repeatMin(s, i, lo) ==
    IF ~lo.ok \/ lo.i > Len(s) THEN NoRepeat(i)
    ELSE IF s[lo.i] = "}" THEN [ok |-> TRUE, min |-> lo.n, max |-> lo.n, i |-> lo.i + 1]
    ELSE IF s[lo.i] # "," \/ lo.i + 1 > Len(s) THEN NoRepeat(i)
    ELSE IF s[lo.i + 1] = "}" THEN [ok |-> TRUE, min |-> lo.n, max |-> 0 - 1, i |-> lo.i + 2]
    ELSE repeatMax(s, i, lo, parseInt(s, lo.i + 1))

\* parseRepeat at the '{' s[i]: {n}, {n,} or {n,m}
parseRepeat(s, i) == repeatMin(s, i, parseInt(s, i + 1))

\* the parse flags FoldCase, OneLine, DotNL, NonGreedy and WasDollar
ZeroFlags ==
    [fold |-> FALSE, oneLine |-> FALSE, dotNL |-> FALSE, nonGreedy |-> FALSE,
     dollar |-> FALSE]

\* syntax.Perl: OneLine is set, FoldCase, DotNL and NonGreedy are not
PerlFlags == [ZeroFlags EXCEPT !.oneLine = TRUE]

NoFlags(flags, i) == [ok |-> FALSE, kind |-> "", flags |-> flags, name |-> <<>>, i |-> i]

\* the flags of "(?flags)" and "(?flags:" from s[j]: st = [flags, neg, saw];
\* the kind is "group" after a colon and "flags" after a parenthesis
RECURSIVE flagLoop(_, _, _)
flagLoop(s, j, st) ==
    IF j > Len(s) THEN NoFlags(st.flags, j)
    ELSE IF s[j] = "i"
         THEN flagLoop(s, j + 1, [st EXCEPT !.flags.fold = ~st.neg, !.saw = TRUE])
    ELSE IF s[j] = "m"
         THEN flagLoop(s, j + 1, [st EXCEPT !.flags.oneLine = st.neg, !.saw = TRUE])
    ELSE IF s[j] = "s"
         THEN flagLoop(s, j + 1, [st EXCEPT !.flags.dotNL = ~st.neg, !.saw = TRUE])
    ELSE IF s[j] = "U"
         THEN flagLoop(s, j + 1, [st EXCEPT !.flags.nonGreedy = ~st.neg, !.saw = TRUE])
    ELSE IF s[j] = "-" /\ ~st.neg
         THEN flagLoop(s, j + 1, [st EXCEPT !.neg = TRUE, !.saw = FALSE])
    ELSE IF s[j] \in {":", ")"} /\ ~(st.neg /\ ~st.saw)
         THEN [ok |-> TRUE, kind |-> IF s[j] = ":" THEN "group" ELSE "flags",
               flags |-> st.flags, name |-> <<>>, i |-> j + 1]
    ELSE NoFlags(st.flags, j)

\* the group of the name written before s[close]
namedGroup(name, close, flags, i) ==
    IF /\ close > 0
       /\ name # <<>>
       /\ \A k \in 1..Len(name) : name[k] = "_" \/ IsAlnum(name[k])
    THEN [ok |-> TRUE, kind |-> "named", flags |-> flags, name |-> name, i |-> close + 1]
    ELSE NoFlags(flags, i)

\* "(?P<name>" and "(?<name>" at the '(' s[i]: the name begins at s[begin] and
\* ends before s[close]
perlName(s, i, begin, close, flags) ==
    namedGroup(SubSeq(s, begin, close - 1), close, flags, i)

\* parsePerlFlags at the '(' s[i] of "(?": a named group ("named"), a group
\* that captures nothing ("group") or new flags ("flags")
parsePerlFlags(s, i, flags) ==
    IF Len(s) - i + 1 > 4 /\ s[i + 2] = "P" /\ s[i + 3] = "<"
    THEN perlName(s, i, i + 4, IndexFrom(s, i, ">"), flags)
    ELSE IF Len(s) - i + 1 > 3 /\ s[i + 2] = "<"
         THEN perlName(s, i, i + 3, IndexFrom(s, i, ">"), flags)
    ELSE flagLoop(s, i + 2, [flags |-> flags, neg |-> FALSE, saw |-> FALSE])

\* The parser keeps the expressions it makes in heap, a Regexp at each place:
\* a *Regexp is the place, and numRegexp is the length of heap. Of a Regexp,
\* op is OpNoMatch "nomatch", OpEmptyMatch "empty", OpLiteral "lit",
\* OpCharClass "class", OpAnyCharNotNL "anynl", OpAnyChar "any", OpBeginLine
\* "bol", OpEndLine "eol", OpBeginText "bot", OpEndText "eot", OpWordBoundary
\* "wb", OpNoWordBoundary "nwb", OpCapture "cap", OpStar "star", OpPlus
\* "plus", OpQuest "quest", OpRepeat "repeat", OpConcat "cat", OpAlternate
\* "alt", opLeftParen "(" or opVerticalBar "|"; rune is Rune of a literal and
\* cls is Rune of a class, its ranges; subs are the places of Sub; h and sz
\* are the entries of the place in the maps p.height and p.size, 0 when there
\* is none.
Regexp(o, flags, rune, cls, subs, min, max, cap) ==
    [op |-> o, flags |-> flags, rune |-> rune, cls |-> cls, subs |-> subs,
     min |-> min, max |-> max, cap |-> cap, h |-> 0, sz |-> 0]

Leaf(o, flags) == Regexp(o, flags, <<>>, {}, <<>>, 0, 0, 0)
Literal(rune, flags) == Regexp("lit", flags, rune, {}, <<>>, 0, 0, 0)
CharClass(cls, flags) == Regexp("class", flags, <<>>, cls, <<>>, 0, 0, 0)
Operator(o, flags, subs, min, max) == Regexp(o, flags, <<>>, {}, subs, min, max, 0)

\* Op >= opPseudo
IsPseudo(o) == o \in {"(", "|"}

\* the parser at s[p.i]: rep tells that the last token was a repetition
\* (lastRepeat), quote that s[p.i] is inside \Q...\E, free is the list p.free
\* from its head, heightOn and sizeOn tell that the maps p.height and p.size
\* are made, re is the place that the last call returned and b the bool
NewParser ==
    [ok |-> TRUE, i |-> 1, rep |-> FALSE, quote |-> FALSE, flags |-> PerlFlags,
     stack |-> <<>>, free |-> <<>>, heap |-> <<>>, numCap |-> 0, numRunes |-> 0,
     repeats |-> 0, heightOn |-> FALSE, sizeOn |-> FALSE, re |-> 0, b |-> FALSE]

\* an error that Parse returns, or a panic that it recovers from
Fail(p) == [p EXCEPT !.ok = FALSE]

\* newRegexp: the place at the head of the free list, or a new one; the
\* entry of a place in p.size outlives the Regexp it was made for
newRegexp(p, re) ==
    IF p.free = <<>>
    THEN [p EXCEPT !.heap = Append(p.heap, re), !.re = Len(p.heap) + 1]
    ELSE [p EXCEPT !.heap[Head(p.free)] = [re EXCEPT !.sz = p.heap[Head(p.free)].sz],
                   !.free = Tail(p.free),
                   !.re = Head(p.free)]

\* reuse: the place goes to the head of the free list, and leaves p.height
reuse(p, re) == [p EXCEPT !.heap[re].h = 0, !.free = <<re>> \o p.free]

maxHeight == 1000

\* maxSize = 128<<20 / instSize, maxRunes = 128<<20 / runeSize
maxSize == (128 * 1048576) \div 40
maxRunes == (128 * 1048576) \div 4

\* the greater of two numbers
Greater(a, b) == IF a > b THEN a ELSE b

\* a size, which is an int64 in the parser: one above maxSize stands for
\* every size above it
Sat(n) == IF n > maxSize THEN maxSize + 1 ELSE n

\* n times the size sub
Times(n, sub) ==
    IF n = 0 THEN 0 ELSE IF sub > maxSize \div n THEN maxSize + 1 ELSE n * sub

\* the places of the Regexps subs
Places(subs) == {subs[k] : k \in 1..Len(subs)}

\* the entry of a Regexp in the map p.size (sized) or p.height, 0 for none
MapEntry(re, sized) == IF sized THEN re.sz ELSE re.h

\* the subs of the places front that have no entry
NoEntry(heap, front, sized) ==
    {c \in UNION {Places(heap[x].subs) : x \in front} : MapEntry(heap[c], sized) = 0}

\* st = [seen, front] with the places new, which are the front
grown(st, new) == [seen |-> {c : c \in st.seen \cup new}, front |-> {c : c \in new}]

\* the places seen, after those below the front that have no entry
RECURSIVE pending(_, _, _, _, _)
pending(heap, sized, lo, hi, st) ==
    IF lo > hi \/ st.front = {} THEN st
    ELSE IF lo = hi THEN grown(st, NoEntry(heap, st.front, sized) \ st.seen)
    ELSE pending(heap, sized, (lo + hi) \div 2 + 1, hi,
                 pending(heap, sized, lo, (lo + hi) \div 2, st))

\* the places that calcSize(re, true) or calcHeight(re, true) makes an entry
\* for: re, and the places below that calcSize(sub, false) or
\* calcHeight(sub, false) finds without one
Pending(heap, re, sized) ==
    pending(heap, sized, 1, Len(heap), [seen |-> {re}, front |-> {re}]).seen

\* the subs of the places front
Below(heap, front) == UNION {Places(heap[x].subs) : x \in front}

RECURSIVE subtree(_, _, _, _)
subtree(heap, lo, hi, st) ==
    IF lo > hi \/ st.front = {} THEN st
    ELSE IF lo = hi THEN grown(st, Below(heap, st.front) \ st.seen)
    ELSE subtree(heap, (lo + hi) \div 2 + 1, hi, subtree(heap, lo, (lo + hi) \div 2, st))

\* the places of the Regexp at the place re and of those below it
Subtree(heap, re) == subtree(heap, 1, Len(heap), [seen |-> {re}, front |-> {re}]).seen

\* the sum of the entries in p.size of subs[lo..hi]
RECURSIVE sumSizes(_, _, _, _)
sumSizes(heap, subs, lo, hi) ==
    IF lo > hi THEN 0
    ELSE IF lo = hi THEN heap[subs[lo]].sz
    ELSE Sat(sumSizes(heap, subs, lo, (lo + hi) \div 2)
             + sumSizes(heap, subs, (lo + hi) \div 2 + 1, hi))

\* the greatest of the entries in p.height of subs[lo..hi]
RECURSIVE maxHeights(_, _, _, _)
maxHeights(heap, subs, lo, hi) ==
    IF lo > hi THEN 0
    ELSE IF lo = hi THEN heap[subs[lo]].h
    ELSE Greater(maxHeights(heap, subs, lo, (lo + hi) \div 2),
                 maxHeights(heap, subs, (lo + hi) \div 2 + 1, hi))

\* calcSize: the size of the Regexp re whose subs have the sizes that add up
\* to sub
sizeOf(re, sub) ==
    CASE re.op = "lit" -> Len(re.rune)
      [] re.op \in {"cap", "star"} -> 2 + sub
      [] re.op \in {"plus", "quest"} -> 1 + sub
      [] re.op = "cat" -> sub
      [] re.op = "alt" -> sub + (IF Len(re.subs) > 1 THEN Len(re.subs) - 1 ELSE 0)
      [] re.op = "repeat" ->
            IF re.max = 0 - 1
            THEN (IF re.min = 0 THEN 2 + sub ELSE 1 + Times(re.min, sub))
            ELSE Times(re.max, sub) + (re.max - re.min)
      [] OTHER -> 0

\* the Regexp re with its entry in p.size (sized) or p.height, from the
\* entries of its subs
entered(heap, re, sized) ==
    IF sized
    THEN [re EXCEPT !.sz = Sat(Greater(1, sizeOf(re, sumSizes(heap, re.subs, 1, Len(re.subs)))))]
    ELSE [re EXCEPT !.h = 1 + maxHeights(heap, re.subs, 1, Len(re.subs))]

\* the places of todo that have no entry and whose subs all have one
Ready(heap, todo, sized) ==
    {c \in todo : /\ MapEntry(heap[c], sized) = 0
                  /\ \A k \in 1..Len(heap[c].subs) : MapEntry(heap[heap[c].subs[k]], sized) > 0}

\* the heap with the entries of the places ready
enteredAll(heap, ready, sized) ==
    SubSeq([c \in 1..Len(heap) |->
               IF c \in ready THEN entered(heap, heap[c], sized) ELSE heap[c]],
           1, Len(heap))

\* the entries of the places todo are made from the lowest up, until re has one
RECURSIVE mapEntries(_, _, _, _, _, _)
mapEntries(heap, todo, sized, re, lo, hi) ==
    IF lo > hi \/ MapEntry(heap[re], sized) > 0 THEN heap
    ELSE IF lo = hi THEN enteredAll(heap, Ready(heap, todo, sized), sized)
    ELSE mapEntries(mapEntries(heap, todo, sized, re, lo, (lo + hi) \div 2), todo, sized, re,
                 (lo + hi) \div 2 + 1, hi)

\* the heap after calcSize(re, true) or calcHeight(re, true), which makes the
\* entries of the places todo
calcEntries(heap, re, todo, sized) ==
    IF todo = {re} THEN [heap EXCEPT ![re] = entered(heap, @, sized)]
    ELSE mapEntries(IF sized THEN [heap EXCEPT ![re].sz = 0] ELSE [heap EXCEPT ![re].h = 0],
                 todo, sized, re, 1, Cardinality(todo))

\* calcSize(re, true): the size of re is its entry in p.size
calcSize(p, re) == [p EXCEPT !.heap = calcEntries(p.heap, re, Pending(p.heap, re, TRUE), TRUE)]

\* panic(ErrLarge) for a size above maxSize
sizeChecked(p, re) == IF p.heap[re].sz > maxSize THEN Fail(p) ELSE p

\* checkSize for the places stack[lo..hi], when p.size is made
RECURSIVE sizeStack(_, _, _)
sizeStack(p, lo, hi) ==
    IF lo > hi \/ ~p.ok THEN p
    ELSE IF lo = hi THEN sizeChecked(calcSize(p, p.stack[lo]), p.stack[lo])
    ELSE sizeStack(sizeStack(p, lo, (lo + hi) \div 2), (lo + hi) \div 2 + 1, hi)

\* the count n of checkSize for a Regexp
repeatCount(re) ==
    IF re.op # "repeat" THEN 1
    ELSE IF re.max = 0 - 1 THEN (IF re.min <= 0 THEN 1 ELSE re.min)
    ELSE IF re.max <= 0 THEN 1
    ELSE re.max

\* p.repeats: the product of the counts seen, maxSize at most
repeatsSeen(repeats, n) == IF n > maxSize \div repeats THEN maxSize ELSE repeats * n

sizeAfter(p, re) == IF p.ok THEN sizeChecked(calcSize(p, re), re) ELSE p

\* checkSize while there is no p.size, after p.repeats is brought up to date:
\* the map is made when numRegexp times p.repeats reaches maxSize
sizeTracked(p, re) ==
    IF Len(p.heap) < maxSize \div p.repeats THEN p
    ELSE sizeAfter(sizeStack([p EXCEPT !.sizeOn = TRUE], 1, Len(p.stack)), re)

checkSize(p, re) ==
    IF p.sizeOn THEN sizeChecked(calcSize(p, re), re)
    ELSE sizeTracked([p EXCEPT !.repeats = repeatsSeen(IF p.repeats = 0 THEN 1 ELSE p.repeats,
                                                        repeatCount(p.heap[re]))], re)

\* calcHeight(re, true): the height of re is its entry in p.height
calcHeight(p, re) ==
    [p EXCEPT !.heap = calcEntries(p.heap, re, Pending(p.heap, re, FALSE), FALSE)]

\* panic(ErrNestingDepth) for a height above maxHeight
heightChecked(p, re) == IF p.heap[re].h > maxHeight THEN Fail(p) ELSE p

\* checkHeight for the places stack[lo..hi], when p.height is made
RECURSIVE heightStack(_, _, _)
heightStack(p, lo, hi) ==
    IF lo > hi \/ ~p.ok THEN p
    ELSE IF lo = hi THEN heightChecked(calcHeight(p, p.stack[lo]), p.stack[lo])
    ELSE heightStack(heightStack(p, lo, (lo + hi) \div 2), (lo + hi) \div 2 + 1, hi)

heightAfter(p, re) == IF p.ok THEN heightChecked(calcHeight(p, re), re) ELSE p

\* checkHeight: nothing is looked at while numRegexp is below maxHeight
checkHeight(p, re) ==
    IF ~p.ok \/ Len(p.heap) < maxHeight THEN p
    ELSE heightAfter(IF p.heightOn THEN p
                     ELSE heightStack([p EXCEPT !.heightOn = TRUE], 1, Len(p.stack)), re)

\* checkLimits: the runes of the classes and literals, the size and the height
checkLimits(p, re) ==
    IF ~p.ok THEN p
    ELSE IF p.numRunes > maxRunes THEN Fail(p)
    ELSE checkHeight(checkSize(p, re), re)

\* maybeConcat can join the two literals on top of the stack
canConcat(p) ==
    /\ Len(p.stack) >= 2
    /\ p.heap[p.stack[Len(p.stack)]].op = "lit"
    /\ p.heap[p.stack[Len(p.stack) - 1]].op = "lit"
    /\ p.heap[p.stack[Len(p.stack)]].flags.fold = p.heap[p.stack[Len(p.stack) - 1]].flags.fold

\* the runes of the literal re1 on top go to the end of those of re2 below it
joined(p, re1, re2) == [p EXCEPT !.heap[re2].rune = @ \o p.heap[re1].rune]

\* maybeConcat(-1, 0): the literal on top is popped and its place reused
maybeConcat(p) ==
    IF canConcat(p)
    THEN reuse([joined(p, p.stack[Len(p.stack)], p.stack[Len(p.stack) - 1])
                   EXCEPT !.stack = SubSeq(p.stack, 1, Len(p.stack) - 1)],
               p.stack[Len(p.stack)])
    ELSE p

\* maybeConcat(r, flags) that returns true: the literal on top becomes r
keepConcat(p, re1, r, flags) ==
    [joined(p, re1, p.stack[Len(p.stack) - 1])
        EXCEPT !.heap[re1].rune = <<r>>, !.heap[re1].flags = flags]

\* a class of one code point
IsSingleRune(re) ==
    /\ re.op = "class"
    /\ Cardinality(re.cls) = 1
    /\ \A r \in re.cls : r[1] = r[2]

\* the two code points of a class of two: of two ranges of one each, or of
\* one range of two
PairOf(cls) ==
    IF Cardinality(cls) = 2 /\ \A r \in cls : r[1] = r[2] THEN {r[1] : r \in cls}
    ELSE IF Cardinality(cls) = 1 /\ \A r \in cls : r[1] + 1 = r[2]
         THEN UNION {{r[1], r[2]} : r \in cls}
    ELSE {}

\* a class of the two code points of an orbit, like [Aa]: unicode.SimpleFold
\* takes each of the two to the other
IsFoldPair(re) ==
    /\ re.op = "class"
    /\ PairOf(re.cls) # {}
    /\ Orbit(Least(PairOf(re.cls))) = PairOf(re.cls)

\* the stack with re on top, and checkLimits
pushed(p, re) == checkLimits([p EXCEPT !.stack = Append(p.stack, re)], re)

\* push of a class that is the literal r
pushLiteral(p, re, r, flags) ==
    IF canConcat(p) THEN keepConcat(p, p.stack[Len(p.stack)], r, flags)
    ELSE pushed([p EXCEPT !.heap[re].op = "lit", !.heap[re].rune = <<r>>,
                          !.heap[re].cls = {}, !.heap[re].flags = flags], re)

\* p.numRunes += len(re.Rune), with one above maxRunes for all above it
counted(p, re) ==
    [p EXCEPT !.numRunes =
        IF @ > maxRunes THEN @ ELSE @ + Len(re.rune) + 2 * Cardinality(re.cls)]

\* push of the Regexp at the place re, which is a class of one code point
\* (single), or of the two of an orbit (pair), or neither
pushAs(p, re, single, pair) ==
    IF single \/ pair
    THEN pushLiteral(p, re, Least({r[1] : r \in p.heap[re].cls}), [p.flags EXCEPT !.fold = pair])
    ELSE pushed(maybeConcat(p), re)

\* push
push(p, re) ==
    pushAs(counted(p, p.heap[re]), re, IsSingleRune(p.heap[re]), IsFoldPair(p.heap[re]))

\* push of the place that newRegexp returned
pushNew(p) == push(p, p.re)

\* literal: newLiteral and push
literal(p, r) ==
    pushNew(newRegexp(p, Literal(<<IF p.flags.fold THEN minFoldRune(r) ELSE r>>, p.flags)))

\* op: a new Regexp with the flags, and push
pushOp(p, o, flags) == pushNew(newRegexp(p, Leaf(o, flags)))

\* the count m of repeatIsValid for a Regexp
repeatTimes(re) == IF re.max < 0 THEN re.min ELSE re.max

\* the subs of the Regexp at the place x[1] with the n that is left for them
\* of x[2]; none below a repeat of the maximum 0, which is valid
repeatSubs(heap, x) ==
    IF heap[x[1]].op # "repeat" THEN {<<c, x[2]>> : c \in Places(heap[x[1]].subs)}
    ELSE IF heap[x[1]].max = 0 THEN {}
    ELSE {<<c, IF repeatTimes(heap[x[1]]) > 0 THEN x[2] \div repeatTimes(heap[x[1]])
               ELSE x[2]>> : c \in Places(heap[x[1]].subs)}

\* the Regexp at the place x[1] is a repeat of more than the n of x[2]
repeatOver(heap, x) ==
    /\ heap[x[1]].op = "repeat"
    /\ heap[x[1]].max # 0
    /\ repeatTimes(heap[x[1]]) > x[2]

\* st = [ok, front]: the places of the front with their n, a level of the
\* Regexp at a time
repeatLevel(heap, st) ==
    IF \E x \in st.front : repeatOver(heap, x) THEN [ok |-> FALSE, front |-> {}]
    ELSE [ok |-> TRUE, front |-> UNION {repeatSubs(heap, x) : x \in st.front}]

RECURSIVE repeatLevels(_, _, _, _)
repeatLevels(heap, lo, hi, st) ==
    IF lo > hi \/ st.front = {} THEN st
    ELSE IF lo = hi THEN repeatLevel(heap, st)
    ELSE repeatLevels(heap, (lo + hi) \div 2 + 1, hi,
                      repeatLevels(heap, lo, (lo + hi) \div 2, st))

\* repeatIsValid(re, n): the counts of nested repeats multiply to n at most
repeatIsValid(heap, re, n) ==
    repeatLevels(heap, 1, Len(heap), [ok |-> TRUE, front |-> {<<re, n>>}]).ok

\* the parser goes on at s[i]
advance(p, i, rep) == IF p.ok THEN [p EXCEPT !.i = i, !.rep = rep] ELSE p

\* ErrInvalidRepeatSize for a repeat whose counts multiply to more than 1000
validRepeat(p, re) ==
    IF /\ p.ok
       /\ p.heap[re].op = "repeat"
       /\ (p.heap[re].min >= 2 \/ p.heap[re].max >= 2)
       /\ ~repeatIsValid(p.heap, re, 1000)
    THEN Fail(p)
    ELSE p

\* the new Regexp p.re takes the place of its sub on top of the stack
repeated(p, i) ==
    advance(validRepeat(checkLimits([p EXCEPT !.stack[Len(p.stack)] = p.re], p.re), p.re),
            i, TRUE)

\* p.repeat: o on the Regexp on top of the stack; i is the index after the
\* operator, where a '?' makes the repetition non-greedy
repeat(s, p, o, min, max, i) ==
    IF p.rep \/ p.stack = <<>> THEN Fail(p)
    ELSE IF IsPseudo(p.heap[p.stack[Len(p.stack)]].op) THEN Fail(p)
    ELSE repeated(newRegexp(p, Operator(o,
                                        [p.flags EXCEPT !.nonGreedy =
                                            (@ # (i <= Len(s) /\ s[i] = "?"))],
                                        <<p.stack[Len(p.stack)]>>, min, max)),
                  IF i <= Len(s) /\ s[i] = "?" THEN i + 1 ELSE i)

\* isCharClass
isCharClass(re) ==
    \/ re.op = "lit" /\ Len(re.rune) = 1
    \/ re.op \in {"class", "anynl", "any"}

\* matchRune
matchRune(re, r) ==
    CASE re.op = "lit" -> Len(re.rune) = 1 /\ re.rune[1] = r
      [] re.op = "class" -> InRanges(r, re.cls)
      [] re.op = "anynl" -> r # 10
      [] re.op = "any" -> TRUE
      [] OTHER -> FALSE

\* the ranges that mergeCharClass appends for src
classRunes(src) ==
    IF src.op = "lit" THEN appendLiteral(src.rune[1], src.flags.fold) ELSE src.cls

\* mergeCharClass(dst, src): dst after it
mergeCharClass(dst, src) ==
    CASE dst.op = "any" -> dst
      [] dst.op = "anynl" -> IF matchRune(src, 10) THEN [dst EXCEPT !.op = "any"] ELSE dst
      [] dst.op = "class" -> [dst EXCEPT !.cls = @ \cup classRunes(src)]
      [] dst.op = "lit" ->
            IF src.rune[1] = dst.rune[1] /\ src.flags = dst.flags THEN dst
            ELSE [dst EXCEPT !.op = "class", !.rune = <<>>,
                             !.cls = classRunes(dst) \cup classRunes(src)]

\* the class cls that cleanAlt has cleaned
cleanedAlt(re, cls) ==
    IF cls = {<<0, MaxRune>>} THEN [re EXCEPT !.op = "any", !.cls = {}]
    ELSE IF cls = {<<0, 9>>, <<11, MaxRune>>} THEN [re EXCEPT !.op = "anynl", !.cls = {}]
    ELSE [re EXCEPT !.cls = cls]

\* cleanAlt
cleanAlt(p, re) ==
    IF p.heap[re].op = "class"
    THEN [p EXCEPT !.heap[re] = cleanedAlt(@, cleanClass(@.cls))]
    ELSE p

\* the Op of the Regexps of isCharClass, as a number
OpRank(o) == CASE o = "lit" -> 3 [] o = "class" -> 4 [] o = "anynl" -> 5 [] o = "any" -> 6

\* len(re.Rune)
LenRune(re) == Len(re.rune) + 2 * Cardinality(re.cls)

\* Regexp.Equal
RECURSIVE Equal(_, _, _)
Equal(heap, x, y) ==
    /\ heap[x].op = heap[y].op
    /\ CASE heap[x].op = "eot" -> heap[x].flags.dollar = heap[y].flags.dollar
         [] heap[x].op = "lit" -> heap[x].rune = heap[y].rune
         [] heap[x].op = "class" -> heap[x].cls = heap[y].cls
         [] heap[x].op \in {"alt", "cat"} ->
               /\ Len(heap[x].subs) = Len(heap[y].subs)
               /\ \A k \in 1..Len(heap[x].subs) : Equal(heap, heap[x].subs[k], heap[y].subs[k])
         [] heap[x].op \in {"star", "plus", "quest", "repeat"} ->
               /\ heap[x].flags.nonGreedy = heap[y].flags.nonGreedy
               /\ heap[x].op = "repeat" => heap[x].min = heap[y].min /\ heap[x].max = heap[y].max
               /\ Equal(heap, heap[x].subs[1], heap[y].subs[1])
         [] heap[x].op = "cap" ->
               /\ heap[x].cap = heap[y].cap
               /\ Equal(heap, heap[x].subs[1], heap[y].subs[1])
         [] OTHER -> TRUE

\* the place of the Regexp that a concatenation begins with, or re
LeadingOf(heap, re) ==
    IF heap[re].op = "cat" /\ heap[re].subs # <<>> THEN heap[re].subs[1] ELSE re

\* leadingString: the runes and FoldCase of the literal that re begins with
leadingString(heap, re) ==
    IF heap[LeadingOf(heap, re)].op = "lit"
    THEN [rune |-> heap[LeadingOf(heap, re)].rune, fold |-> heap[LeadingOf(heap, re)].flags.fold]
    ELSE [rune |-> <<>>, fold |-> FALSE]

\* leadingRegexp: the place of the Regexp that re begins with, 0 for nil
leadingRegexp(heap, re) ==
    IF heap[re].op = "empty" \/ heap[LeadingOf(heap, re)].op = "empty" THEN 0
    ELSE LeadingOf(heap, re)

\* the concatenation re whose first sub has lost its leading string and is p.re
leadingRemoved(p, re) ==
    IF p.heap[p.re].op # "empty" THEN [p EXCEPT !.heap[re].subs[1] = p.re, !.re = re]
    ELSE IF Len(p.heap[re].subs) <= 1
         THEN [reuse(p, p.re) EXCEPT !.heap[re].op = "empty", !.heap[re].subs = <<>>, !.re = re]
    ELSE IF Len(p.heap[re].subs) = 2
         THEN [reuse(reuse(p, p.re), re) EXCEPT !.re = p.heap[re].subs[2]]
    ELSE [reuse(p, p.re) EXCEPT !.heap[re].subs = Tail(p.heap[re].subs), !.re = re]

\* removeLeadingString(re, n): p.re is the place of what is left
RECURSIVE removeLeadingString(_, _, _)
removeLeadingString(p, re, n) ==
    IF p.heap[re].op = "cat" /\ p.heap[re].subs # <<>>
    THEN leadingRemoved(removeLeadingString(p, p.heap[re].subs[1], n), re)
    ELSE IF p.heap[re].op = "lit"
         THEN [p EXCEPT !.heap[re].rune = SubSeq(@, n + 1, Len(@)),
                        !.heap[re].op = IF Len(p.heap[re].rune) <= n THEN "empty" ELSE "lit",
                        !.re = re]
    ELSE [p EXCEPT !.re = re]

\* the concatenation re without its first sub
shortened(p, re) ==
    IF Len(p.heap[re].subs) = 1
    THEN [p EXCEPT !.heap[re].op = "empty", !.heap[re].subs = <<>>, !.re = re]
    ELSE IF Len(p.heap[re].subs) = 2
         THEN [reuse(p, re) EXCEPT !.re = p.heap[re].subs[2]]
    ELSE [p EXCEPT !.heap[re].subs = Tail(@), !.re = re]

\* removeLeadingRegexp(re, reuse): p.re is the place of what is left
removeLeadingRegexp(p, re, free) ==
    IF p.heap[re].op = "cat" /\ p.heap[re].subs # <<>>
    THEN shortened(IF free THEN reuse(p, p.heap[re].subs[1]) ELSE p, re)
    ELSE newRegexp(IF free THEN reuse(p, re) ELSE p, Leaf("empty", ZeroFlags))

\* the number of places where the runes a and b are the same from the first on
Same(a, b) ==
    Cardinality({k \in 1..(IF Len(a) < Len(b) THEN Len(a) ELSE Len(b)) :
                    \A j \in 1..k : a[j] = b[j]})

\* the state of a round of factor has the place p.re at the end of out
appended(st, p) == [st EXCEPT !.p = p, !.out = Append(st.out, p.re)]

\* prefix(suffix1|suffix2|...): the concatenation of the place prefix and of
\* the alternation p.re
prefixed(st, prefix, p) ==
    appended(st, newRegexp(p, Operator("cat", ZeroFlags, <<prefix, p.re>>, 0, 0)))

\* sub[j] is p.re, after checkLimits
replaced(st, j, p) == [st EXCEPT !.p = checkLimits(p, p.re), !.sub[j] = p.re]

\* the alternatives that are left of a run and have an empty one after
\* another: round 4 of factor
RECURSIVE round4(_, _, _, _)
round4(heap, sub, lo, hi) ==
    IF lo > hi THEN <<>>
    ELSE IF lo = hi
         THEN (IF /\ lo + 1 <= Len(sub)
                  /\ heap[sub[lo]].op = "empty"
                  /\ heap[sub[lo + 1]].op = "empty"
               THEN <<>>
               ELSE <<sub[lo]>>)
    ELSE round4(heap, sub, lo, (lo + hi) \div 2) \o round4(heap, sub, (lo + hi) \div 2 + 1, hi)

\* sub[j] is merged in sub[start] and reused: st = [p, sub, out, start]
merged(st, j) ==
    [st EXCEPT !.p = reuse([st.p EXCEPT !.heap[st.sub[st.start]] =
                                mergeCharClass(@, st.p.heap[st.sub[j]])],
                           st.sub[j])]

RECURSIVE mergeRun(_, _, _)
mergeRun(st, lo, hi) ==
    IF lo > hi \/ ~st.p.ok THEN st
    ELSE IF lo = hi THEN merged(st, lo)
    ELSE mergeRun(mergeRun(st, lo, (lo + hi) \div 2), (lo + hi) \div 2 + 1, hi)

\* sub[a] is the less complex of two Regexps of isCharClass
Simpler(heap, a, b) ==
    \/ OpRank(heap[a].op) < OpRank(heap[b].op)
    \/ heap[a].op = heap[b].op /\ LenRune(heap[a]) < LenRune(heap[b])

\* the first of the most complex of sub[start..(i - 1)]
MostComplex(heap, sub, start, i) ==
    CHOOSE m \in start..(i - 1) :
        /\ \A j \in start..(i - 1) : ~Simpler(heap, sub[m], sub[j])
        /\ \A j \in start..(m - 1) : Simpler(heap, sub[j], sub[m])

\* sub with the places at a and b in each other's place
Swapped(sub, a, b) == [sub EXCEPT ![a] = sub[b], ![b] = sub[a]]

\* the run is merged in sub[start], which is cleaned and goes to out
mergedRun(st) ==
    [st EXCEPT !.p = cleanAlt(st.p, st.sub[st.start]), !.out = Append(st.out, st.sub[st.start])]

\* round 3 of factor at i, where the run sub[start..(i - 1)] of literals of
\* one rune and of classes ends
run3(st, i) ==
    IF i = st.start THEN st
    ELSE IF i = st.start + 1 THEN [st EXCEPT !.out = Append(st.out, st.sub[st.start])]
    ELSE mergedRun(mergeRun([st EXCEPT !.sub = Swapped(st.sub, st.start,
                                                       MostComplex(st.p.heap, st.sub, st.start, i))],
                            st.start + 1, i - 1))

\* sub[i] goes to out after the run
after3(st, i) ==
    [st EXCEPT !.out = IF i <= Len(st.sub) THEN Append(st.out, st.sub[i]) ELSE st.out,
               !.start = i + 1]

step3(st, i) ==
    IF i <= Len(st.sub) /\ isCharClass(st.p.heap[st.sub[i]]) THEN st
    ELSE after3(run3(st, i), i)

RECURSIVE round3(_, _, _)
round3(st, lo, hi) ==
    IF lo > hi \/ ~st.p.ok THEN st
    ELSE IF lo = hi THEN step3(st, lo)
    ELSE round3(round3(st, lo, (lo + hi) \div 2), (lo + hi) \div 2 + 1, hi)

RECURSIVE collapse(_, _, _)

\* sub[j] loses the leading string of n runes: round 1
RECURSIVE strip1(_, _, _, _)
strip1(st, lo, hi, n) ==
    IF lo > hi \/ ~st.p.ok THEN st
    ELSE IF lo = hi THEN replaced(st, lo, removeLeadingString(st.p, st.sub[lo], n))
    ELSE strip1(strip1(st, lo, (lo + hi) \div 2, n), (lo + hi) \div 2 + 1, hi, n)

\* the run sub[start..(i - 1)] without the string, behind the literal prefix
suffixed1(st, i, prefix) ==
    prefixed(st, prefix, collapse(st.p, SubSeq(st.sub, st.start, i - 1), "alt"))

\* p is the parser with the new literal p.re of the common string
factored1(st, i, p) ==
    suffixed1(strip1([st EXCEPT !.p = p], st.start, i - 1, Len(st.str)), i, p.re)

\* round 1 of factor at i, where the run sub[start..(i - 1)] of Regexps that
\* begin with the string str ends: st = [p, sub, out, start, str, fold]
run1(st, i) ==
    IF i = st.start THEN st
    ELSE IF i = st.start + 1 THEN [st EXCEPT !.out = Append(st.out, st.sub[st.start])]
    ELSE factored1(st, i,
                   newRegexp(st.p, Literal(st.str, [ZeroFlags EXCEPT !.fold = st.fold])))

\* istr is the leading string of sub[i], none after the last
step1(st, i, istr) ==
    IF i <= Len(st.sub) /\ istr.fold = st.fold /\ Same(st.str, istr.rune) > 0
    THEN [st EXCEPT !.str = SubSeq(st.str, 1, Same(st.str, istr.rune))]
    ELSE [run1(st, i) EXCEPT !.start = i, !.str = istr.rune, !.fold = istr.fold]

RECURSIVE round1(_, _, _)
round1(st, lo, hi) ==
    IF lo > hi \/ ~st.p.ok THEN st
    ELSE IF lo = hi
         THEN step1(st, lo, IF lo <= Len(st.sub) THEN leadingString(st.p.heap, st.sub[lo])
                            ELSE [rune |-> <<>>, fold |-> FALSE])
    ELSE round1(round1(st, lo, (lo + hi) \div 2), (lo + hi) \div 2 + 1, hi)

\* sub[j] loses its leading Regexp, which is reused but for the first: round 2
RECURSIVE strip2(_, _, _)
strip2(st, lo, hi) ==
    IF lo > hi \/ ~st.p.ok THEN st
    ELSE IF lo = hi
         THEN replaced(st, lo, removeLeadingRegexp(st.p, st.sub[lo], lo # st.start))
    ELSE strip2(strip2(st, lo, (lo + hi) \div 2), (lo + hi) \div 2 + 1, hi)

\* the run sub[start..(i - 1)] without its leading Regexp, behind it
suffixed2(st, i, prefix) ==
    prefixed(st, prefix, collapse(st.p, SubSeq(st.sub, st.start, i - 1), "alt"))

\* round 2 of factor at i, where the run sub[start..(i - 1)] of Regexps that
\* begin with the Regexp first ends: st = [p, sub, out, start, first]
run2(st, i) ==
    IF i = st.start THEN st
    ELSE IF i = st.start + 1 THEN [st EXCEPT !.out = Append(st.out, st.sub[st.start])]
    ELSE suffixed2(strip2(st, st.start, i - 1), i, st.first)

\* first is a character class or a fixed repeat of one
Factorable(heap, first) ==
    \/ isCharClass(heap[first])
    \/ /\ heap[first].op = "repeat"
       /\ heap[first].min = heap[first].max
       /\ isCharClass(heap[heap[first].subs[1]])

\* ifirst is the place of the leading Regexp of sub[i], 0 after the last
step2(st, i, ifirst) ==
    IF /\ i <= Len(st.sub)
       /\ st.first # 0
       /\ ifirst # 0
       /\ Equal(st.p.heap, st.first, ifirst)
       /\ Factorable(st.p.heap, st.first)
    THEN st
    ELSE [run2(st, i) EXCEPT !.start = i, !.first = ifirst]

RECURSIVE round2(_, _, _)
round2(st, lo, hi) ==
    IF lo > hi \/ ~st.p.ok THEN st
    ELSE IF lo = hi
         THEN step2(st, lo, IF lo <= Len(st.sub) THEN leadingRegexp(st.p.heap, st.sub[lo])
                            ELSE 0)
    ELSE round2(round2(st, lo, (lo + hi) \div 2), (lo + hi) \div 2 + 1, hi)

\* the rounds of factor, each on the alternatives that the one before left
factor4(st) == [p |-> st.p, out |-> round4(st.p.heap, st.out, 1, Len(st.out))]

factor3(st) ==
    factor4(round3([p |-> st.p, sub |-> st.out, out |-> <<>>, start |-> 1],
                   1, Len(st.out) + 1))

factor2(st) ==
    factor3(round2([p |-> st.p, sub |-> st.out, out |-> <<>>, start |-> 1, first |-> 0],
                   1, Len(st.out) + 1))

\* factor(sub): the parser and the alternatives out
factor(p, sub) ==
    IF Len(sub) < 2 THEN [p |-> p, out |-> sub]
    ELSE factor2(round1([p |-> p, sub |-> sub, out |-> <<>>, start |-> 1, str |-> <<>>,
                         fold |-> FALSE],
                        1, Len(sub) + 1))

\* the sub of a Regexp of the op o takes its place among the subs: st = [p, out]
flat(st, sub, o) ==
    IF st.p.heap[sub].op = o
    THEN [p |-> reuse(st.p, sub), out |-> st.out \o st.p.heap[sub].subs]
    ELSE [p |-> st.p, out |-> Append(st.out, sub)]

RECURSIVE flatten(_, _, _, _, _)
flatten(st, subs, lo, hi, o) ==
    IF lo > hi \/ ~st.p.ok THEN st
    ELSE IF lo = hi THEN flat(st, subs[lo], o)
    ELSE flatten(flatten(st, subs, lo, (lo + hi) \div 2, o), subs, (lo + hi) \div 2 + 1, hi, o)

\* the alternation re with the alternatives that factor left
alternated(re, st) ==
    IF Len(st.out) = 1 THEN [reuse(st.p, re) EXCEPT !.re = st.out[1]]
    ELSE [st.p EXCEPT !.heap[re].subs = st.out, !.re = re]

\* the new Regexp re of the op o with its subs
collapsed(re, st, o) ==
    IF o = "alt" THEN alternated(re, factor(st.p, st.out))
    ELSE [st.p EXCEPT !.heap[re].subs = st.out, !.re = re]

\* p is the parser with the new Regexp p.re
collapsing(p, subs, o) ==
    collapsed(p.re, flatten([p |-> p, out |-> <<>>], subs, 1, Len(subs), o), o)

\* collapse(subs, op): p.re is the place of the Regexp
collapse(p, subs, o) ==
    IF Len(subs) = 1 THEN [p EXCEPT !.re = subs[1]]
    ELSE collapsing(newRegexp(p, Leaf(o, ZeroFlags)), subs, o)

\* the index of the topmost pseudo-operator of the stack, 0 without one
PseudoTop(p) ==
    IF \E k \in 1..Len(p.stack) : IsPseudo(p.heap[p.stack[k]].op)
    THEN CHOOSE k \in 1..Len(p.stack) :
            /\ IsPseudo(p.heap[p.stack[k]].op)
            /\ \A j \in (k + 1)..Len(p.stack) : ~IsPseudo(p.heap[p.stack[j]].op)
    ELSE 0

\* the Regexps above stack[k] are taken off the stack and collapsed; none
\* is the Regexp of the op none
collapseTop(p, k, o, none) ==
    pushNew(IF k = Len(p.stack) THEN newRegexp(p, Leaf(none, ZeroFlags))
            ELSE collapse([p EXCEPT !.stack = SubSeq(p.stack, 1, k)],
                          SubSeq(p.stack, k + 1, Len(p.stack)), o))

\* concat after maybeConcat
concatTop(p) == collapseTop(p, PseudoTop(p), "cat", "empty")

\* concat
concat(p) == concatTop(maybeConcat(p))

\* alternate
alternate(p) ==
    collapseTop(IF PseudoTop(p) < Len(p.stack) THEN cleanAlt(p, p.stack[Len(p.stack)]) ELSE p,
                PseudoTop(p), "alt", "nomatch")

\* swapVerticalBar for the classes dst and src around the bar on the stack
swapMerged(p, n, dst, src) ==
    [reuse([p EXCEPT !.heap[dst] = mergeCharClass(@, p.heap[src]),
                     !.stack = SubSeq(p.stack, 1, n - 3) \o <<dst, p.stack[n - 1]>>],
           src)
        EXCEPT !.b = TRUE]

\* swapVerticalBar with the bar below the top of the stack
swapped(p, n) ==
    [(IF n >= 3 THEN cleanAlt(p, p.stack[n - 2]) ELSE p)
        EXCEPT !.stack = SubSeq(p.stack, 1, n - 2) \o <<p.stack[n], p.stack[n - 1]>>,
               !.b = TRUE]

\* swapVerticalBar: p.b is what it returns
swapVerticalBar(p) ==
    IF /\ Len(p.stack) >= 3
       /\ p.heap[p.stack[Len(p.stack) - 1]].op = "|"
       /\ isCharClass(p.heap[p.stack[Len(p.stack)]])
       /\ isCharClass(p.heap[p.stack[Len(p.stack) - 2]])
    THEN (IF OpRank(p.heap[p.stack[Len(p.stack)]].op) >
                OpRank(p.heap[p.stack[Len(p.stack) - 2]].op)
          THEN swapMerged(p, Len(p.stack), p.stack[Len(p.stack)], p.stack[Len(p.stack) - 2])
          ELSE swapMerged(p, Len(p.stack), p.stack[Len(p.stack) - 2], p.stack[Len(p.stack)]))
    ELSE IF Len(p.stack) >= 2 /\ p.heap[p.stack[Len(p.stack) - 1]].op = "|"
         THEN swapped(p, Len(p.stack))
    ELSE [p EXCEPT !.b = FALSE]

\* parseVerticalBar
barred(p) == IF p.b THEN p ELSE pushOp(p, "|", p.flags)

parseVerticalBar(p) == barred(swapVerticalBar(concat(p)))

\* the vertical bar is popped when swapVerticalBar returns true
unbarred(p) == IF p.b THEN [p EXCEPT !.stack = SubSeq(p.stack, 1, Len(p.stack) - 1)] ELSE p

\* concat, swapVerticalBar and alternate at a ')' and at the end
closeGroup(p) == alternate(unbarred(swapVerticalBar(concat(p))))

\* the group re1 closes the parenthesis re2
captured(p, n, re1, re2) ==
    IF p.heap[re2].cap = 0
    THEN push([p EXCEPT !.flags = p.heap[re2].flags, !.stack = SubSeq(p.stack, 1, n - 2)],
              re1)
    ELSE push([p EXCEPT !.flags = p.heap[re2].flags, !.stack = SubSeq(p.stack, 1, n - 2),
                        !.heap[re2].op = "cap", !.heap[re2].subs = <<re1>>],
              re2)

\* parseRightParen after the group is closed
rightParen(p) ==
    IF ~p.ok \/ Len(p.stack) < 2 THEN Fail(p)
    ELSE IF p.heap[p.stack[Len(p.stack) - 1]].op # "(" THEN Fail(p)
    ELSE captured(p, Len(p.stack), p.stack[Len(p.stack)], p.stack[Len(p.stack) - 1])

parseRightParen(p) == rightParen(closeGroup(p))

\* opLeftParen with the number cap of the group, 0 for one that captures
\* nothing; the flags of the parser are those after it
leftParen(p, cap, flags) ==
    [pushNew(newRegexp([p EXCEPT !.numCap = IF cap > 0 THEN cap ELSE @],
                       Regexp("(", p.flags, <<>>, {}, <<>>, 0, 0, cap)))
        EXCEPT !.flags = flags]

\* the '(' at s[p.i] of "(?", pf telling what it opens
perlGroup(p, pf) ==
    IF ~pf.ok THEN Fail(p)
    ELSE IF pf.kind = "flags" THEN advance([p EXCEPT !.flags = pf.flags], pf.i, FALSE)
    ELSE advance(leftParen(p, IF pf.kind = "named" THEN p.numCap + 1 ELSE 0, pf.flags),
                 pf.i, FALSE)

\* the token at the '{' s[p.i]: a repetition rp, or the character itself
Braces(s, p, rp) ==
    IF ~rp.ok THEN advance(literal(p, 123), p.i + 1, FALSE)
    ELSE IF rp.min < 0 \/ rp.min > 1000 \/ rp.max > 1000 \/ (rp.max >= 0 /\ rp.min > rp.max)
         THEN Fail(p)
    ELSE repeat(s, p, "repeat", rp.min, rp.max, rp.i)

\* the class cls read at s[p.i]
pushClass(p, cls) ==
    IF cls.ok THEN advance(pushNew(newRegexp(p, CharClass(cls.cls, p.flags))), cls.i, FALSE)
    ELSE Fail(p)

\* the character of the escape r
pushEscape(p, r) == IF r.ok THEN advance(literal(p, r.code), r.i, FALSE) ELSE Fail(p)

\* the op of ^ $ . \A \b \B \z under the flags
TokenOp(c, flags) ==
    CASE c = "^" -> IF flags.oneLine THEN "bot" ELSE "bol"
      [] c = "$" -> IF flags.oneLine THEN "eot" ELSE "eol"
      [] c = "." -> IF flags.dotNL THEN "any" ELSE "anynl"
      [] c = "A" -> "bot"
      [] c = "b" -> "wb"
      [] c = "B" -> "nwb"
      [] c = "z" -> "eot"

\* the token of the character c that is an op: the c of ^ $ . or, after a
\* backslash, of \A \b \B \z; the '$' leaves WasDollar in the flags of OpEndText
opToken(p, c, i) ==
    advance(pushOp(p, TokenOp(c, p.flags),
                   [p.flags EXCEPT !.dollar = (c = "$" /\ p.flags.oneLine)]),
            i, FALSE)

\* the character at s[p.i] inside \Q...\E: a literal, or the \E that ends it
quotedRune(s, p) ==
    IF s[p.i] = "\\" /\ p.i + 1 <= Len(s) /\ s[p.i + 1] = "E"
    THEN [p EXCEPT !.quote = FALSE, !.i = p.i + 2, !.rep = FALSE]
    ELSE advance(literal(p, Code(s[p.i])), p.i + 1, FALSE)

\* the token at s[p.i], which is the character c, before the character d
parseToken(s, p, c, d) ==
    IF c = "(" /\ d = "?" THEN perlGroup(p, parsePerlFlags(s, p.i, p.flags))
    ELSE IF c = "(" THEN advance(leftParen(p, p.numCap + 1, p.flags), p.i + 1, FALSE)
    ELSE IF c = "|" THEN advance(parseVerticalBar(p), p.i + 1, FALSE)
    ELSE IF c = ")" THEN advance(parseRightParen(p), p.i + 1, FALSE)
    ELSE IF c \in {"^", "$", "."} THEN opToken(p, c, p.i + 1)
    ELSE IF c = "\\" /\ d \in {"A", "b", "B", "z"} THEN opToken(p, d, p.i + 2)
    ELSE IF c = "[" \/ (c = "\\" /\ d \in {"p", "P", "d", "s", "w", "D", "S", "W"})
         THEN pushClass(p, parseClass(s, p.i, p.flags.fold))
    ELSE IF c \in {"*", "+", "?"}
         THEN repeat(s, p, CASE c = "*" -> "star" [] c = "+" -> "plus" [] c = "?" -> "quest",
                     0, 0, p.i + 1)
    ELSE IF c = "{" THEN Braces(s, p, parseRepeat(s, p.i))
    ELSE IF c = "\\" /\ d = "C" THEN Fail(p)
    ELSE IF c = "\\" /\ d = "Q" THEN [p EXCEPT !.quote = TRUE, !.i = p.i + 2, !.rep = FALSE]
    ELSE IF c = "\\" THEN pushEscape(p, parseEscape(s, p.i))
    ELSE advance(literal(p, Code(c)), p.i + 1, FALSE)

\* one turn of the loop of parse, at s[p.i]
parseStep(s, p) ==
    IF p.quote THEN quotedRune(s, p)
    ELSE parseToken(s, p, s[p.i], IF p.i + 1 <= Len(s) THEN s[p.i + 1] ELSE "")

\* the turns of the loop that begin in s[lo..hi]
RECURSIVE parseLoop(_, _, _, _)
parseLoop(s, lo, hi, p) ==
    IF lo > hi \/ ~p.ok \/ p.i > hi THEN p
    ELSE IF lo = hi THEN parseStep(s, p)
    ELSE parseLoop(s, (lo + hi) \div 2 + 1, hi, parseLoop(s, lo, (lo + hi) \div 2, p))

\* the end of parse: the stack holds the one Regexp, or a parenthesis is
\* left open (ErrMissingParen)
parseEnd(p) == IF p.ok /\ Len(p.stack) # 1 THEN Fail(p) ELSE p

\* syntax.Parse(pattern, syntax.Perl): ok is err == nil, re the place of the
\* Regexp in heap
Compiled(p) == [ok |-> p.ok, re |-> IF p.ok THEN p.stack[1] ELSE 0, heap |-> p.heap]

Compile(pattern) ==
    Compiled(parseEnd(closeGroup(parseLoop(pattern, 1, Len(pattern), NewParser))))

\* the character of the code point is one that the Regexp re of isCharClass
\* or of more runes matches at the place k of its runes
RuneMatches(re, k, code) ==
    IF re.flags.fold THEN re.rune[k] \in Orbit(code) ELSE re.rune[k] = code

\* s[i] is a word character: for i in 0..Len(s) + 1
IsWordAt(s, i) == i >= 1 /\ i <= Len(s) /\ InRanges(Code(s[i]), PerlClass("w"))

\* the least and the greatest number of matches of a repetition (-1: any)
MinOf(re) == CASE re.op = "plus" -> 1 [] re.op = "repeat" -> re.min [] OTHER -> 0
MaxOf(re) == CASE re.op = "quest" -> 1 [] re.op = "repeat" -> re.max [] OTHER -> 0 - 1

\* A table of a Regexp tells, for each index i of 1..Len(s) + 1, the indexes
\* where a match of it that begins at s[i] can end; tabs holds the table of
\* each place of the heap, <<>> while it is not made.

\* where the matches of the table t that begin at the indexes from end
EndsAll(t, from) == UNION {t[i] : i \in from}

\* where the matches of the Regexps subs[lo..hi] in a row end
RECURSIVE EndsCat(_, _, _, _, _)
EndsCat(tabs, subs, lo, hi, from) ==
    IF lo > hi \/ from = {} THEN from
    ELSE IF lo = hi THEN EndsAll(tabs[subs[lo]], from)
    ELSE EndsCat(tabs, subs, (lo + hi) \div 2 + 1, hi,
                 EndsCat(tabs, subs, lo, (lo + hi) \div 2, from))

\* st = [from, same] after one more match; same tells that the indexes
\* did not change
EndsAgain(st, next) == [from |-> next, same |-> next = st.from]

\* after the matches lo..hi in a row, as long as the indexes change
RECURSIVE EndsTimes(_, _, _, _)
EndsTimes(t, lo, hi, st) ==
    IF lo > hi \/ st.same \/ st.from = {} THEN st
    ELSE IF lo = hi THEN EndsAgain(st, EndsAll(t, st.from))
    ELSE EndsTimes(t, (lo + hi) \div 2 + 1, hi, EndsTimes(t, lo, (lo + hi) \div 2, st))

\* st = [seen, front] with new, where one more match ends and none has yet
EndsNew(st, new) == [seen |-> {i : i \in st.seen \cup new}, front |-> {i : i \in new}]

\* after 0 or more of the matches lo..hi
RECURSIVE EndsMore(_, _, _, _)
EndsMore(t, lo, hi, st) ==
    IF lo > hi \/ st.front = {} THEN st
    ELSE IF lo = hi THEN EndsNew(st, EndsAll(t, st.front) \ st.seen)
    ELSE EndsMore(t, (lo + hi) \div 2 + 1, hi, EndsMore(t, lo, (lo + hi) \div 2, st))

\* least is where the matches that the repetition must have end; there are
\* Len(t) indexes, so that after Len(t) matches no new one is reached
EndsRepeat(re, t, least) ==
    EndsMore(t, 1, IF MaxOf(re) < 0 THEN Len(t) ELSE MaxOf(re) - MinOf(re),
             [seen |-> least, front |-> least]).seen

\* the indexes where a match of the Regexp re that begins at s[i] can end,
\* from the tables of its subs
Ends(re, tabs, s, i) ==
    CASE re.op = "lit" ->
            IF /\ i + Len(re.rune) - 1 <= Len(s)
               /\ \A k \in 1..Len(re.rune) : RuneMatches(re, k, Code(s[i + k - 1]))
            THEN {i + Len(re.rune)}
            ELSE {}
      [] re.op = "class" -> IF i <= Len(s) /\ InRanges(Code(s[i]), re.cls) THEN {i + 1} ELSE {}
      [] re.op = "any" -> IF i <= Len(s) THEN {i + 1} ELSE {}
      [] re.op = "anynl" -> IF i <= Len(s) /\ s[i] # "\n" THEN {i + 1} ELSE {}
      [] re.op = "nomatch" -> {}
      [] re.op = "empty" -> {i}
      [] re.op = "bot" -> IF i = 1 THEN {i} ELSE {}
      [] re.op = "eot" -> IF i = Len(s) + 1 THEN {i} ELSE {}
      [] re.op = "bol" -> IF i = 1 \/ s[i - 1] = "\n" THEN {i} ELSE {}
      [] re.op = "eol" -> IF i = Len(s) + 1 \/ s[i] = "\n" THEN {i} ELSE {}
      [] re.op \in {"wb", "nwb"} ->
            IF (IsWordAt(s, i - 1) # IsWordAt(s, i)) = (re.op = "wb") THEN {i} ELSE {}
      [] re.op = "cat" -> EndsCat(tabs, re.subs, 1, Len(re.subs), {i})
      [] re.op = "alt" -> UNION {tabs[re.subs[k]][i] : k \in 1..Len(re.subs)}
      [] re.op = "cap" -> tabs[re.subs[1]][i]
      [] OTHER -> EndsRepeat(re, tabs[re.subs[1]],
                             EndsTimes(tabs[re.subs[1]], 1, MinOf(re),
                                       [from |-> {i}, same |-> FALSE]).from)

\* the places of todo that have no table and whose subs all have one
ReadyTables(heap, tabs, todo) ==
    {c \in todo : /\ tabs[c] = <<>>
                  /\ \A k \in 1..Len(heap[c].subs) : tabs[heap[c].subs[k]] # <<>>}

\* tabs with the tables of the places ready
Tabled(heap, tabs, s, ready) ==
    SubSeq([c \in 1..Len(heap) |->
               IF c \in ready
               THEN SubSeq([i \in 1..(Len(s) + 1) |-> Ends(heap[c], tabs, s, i)],
                           1, Len(s) + 1)
               ELSE tabs[c]],
           1, Len(heap))

\* the tables of the places todo are made from the lowest up, until re has one
RECURSIVE Tables(_, _, _, _, _, _, _)
Tables(heap, todo, s, re, lo, hi, tabs) ==
    IF lo > hi \/ tabs[re] # <<>> THEN tabs
    ELSE IF lo = hi THEN Tabled(heap, tabs, s, ReadyTables(heap, tabs, todo))
    ELSE Tables(heap, todo, s, re, (lo + hi) \div 2 + 1, hi,
                Tables(heap, todo, s, re, lo, (lo + hi) \div 2, tabs))

\* the table of the Regexp at the place re; todo are the places of the
\* Regexp and of those below it
TableOf(heap, re, s, todo) ==
    Tables(heap, todo, s, re, 1, Cardinality(todo), SubSeq([c \in 1..Len(heap) |-> <<>>], 1, Len(heap)))[re]

\* the table t has a match
SomeEnds(t) == \E i \in 1..Len(t) : t[i] # {}

\* the compiled pattern c matches somewhere in s
Matched(c, s) ==
    [err |-> ~c.ok,
     matched |-> c.ok /\ SomeEnds(TableOf(c.heap, c.re, s, Subtree(c.heap, c.re)))]

\* regexp.MatchString(pattern, s): err is an error of the pattern, matched
\* tells that the pattern matches somewhere in s
MatchString(pattern, s) == Matched(Compile(pattern), s)

-----------------------------------------------------------------------------
(* PluginStateOutput and PluginOutput                                      *)

OK == 0
WARNING == 1
CRITICAL == 2
UNKNOWN == 3

\* PluginStateOutput.String: "panic" stands for the default branch.
String(p) ==
    CASE p = OK -> "ok"
      [] p = WARNING -> "warning"
      [] p = CRITICAL -> "critical"
      [] p = UNKNOWN -> "unknown"
      [] OTHER -> "panic"

\* A value that is a Go nil: set = FALSE.
Nil(zero) == [set |-> FALSE, v |-> zero]
Some(x) == [set |-> TRUE, v |-> x]

EmptyMap == [k \in {} |-> <<>>]

Put(m, k, x) == [y \in DOMAIN m \cup {k} |-> IF y = k THEN x ELSE m[y]]

\* What a parser call yields: a *PluginOutput ("ok"), an error ("error"), or a
\* run-time panic of the goroutine ("panic"). The timestamp is left out.
PluginOutput(state, msg, points, metrics) ==
    [kind |-> "ok", state |-> state, msg |-> msg, points |-> points, metrics |-> metrics]

NoOutput(kind) ==
    [kind |-> kind, state |-> 0, msg |-> <<>>, points |-> Nil(<<>>), metrics |-> Nil(EmptyMap)]

ParseError == NoOutput("error")
Panic == NoOutput("panic")

-----------------------------------------------------------------------------
(* json.Unmarshal(data, &writes) for writes of type []*errplane.JsonPoints: *)
(* the text is scanned as a whole first (a syntax error decodes nothing),   *)
(* then decoded value by value; a value of the wrong type is an error that  *)
(* Unmarshal returns at the end. The types are those of the errplane-go     *)
(* library that plugin.go imports:                                          *)
(*   JsonPoints { Name string `json:"n"`; Points []*JsonPoint `json:"p"` }  *)
(*   JsonPoint  { Value float64 `json:"v"`; Context string `json:"c"`;      *)
(*                Time int64 `json:"t"`; Dimensions Dimensions `json:"d"` } *)
(*   Dimensions map[string]string                                           *)

\* the character of U+FFFD
Unlisted == "U+FFFD"

HexDigits ==
    <<"0", "1", "2", "3", "4", "5", "6", "7", "8", "9", "A", "B", "C", "D", "E", "F">>

\* the hexadecimal digits of v, n of them at least
RECURSIVE HexText(_, _)
HexText(v, n) ==
    IF v = 0 /\ n <= 0 THEN ""
    ELSE HexText(v \div 16, n - 1) \o HexDigits[(v % 16) + 1]

\* the character of a code point
Chr(code) ==
    IF 32 <= code /\ code <= 126 /\ code # 96
    THEN Printable[IF code <= 95 THEN code - 31 ELSE code - 32]
    ELSE CASE code = 9 -> "\t"
           [] code = 10 -> "\n"
           [] code = 11 -> VT
           [] code = 12 -> "\f"
           [] code = 13 -> "\r"
           [] code = 133 -> NEL
           [] code = 160 -> NBSP
           [] OTHER -> "U+" \o HexText(code, 4)

\* a JSON value: t is "null", "true", "false", "num" (text is the literal),
\* "str" (text is the decoded string), "arr" (items are the values) or "obj"
\* (items are the <<key, value>> pairs in the order of the text)
JVal(t, text, items) == [t |-> t, text |-> text, items |-> items]

NoJVal == [ok |-> FALSE, v |-> JVal("null", <<>>, <<>>), i |-> 0]

\* the value v read, and the index after it
Scanned(v, i) == [ok |-> TRUE, v |-> v, i |-> i]

JsonSpace == {" ", "\t", "\r", "\n"}

\* the first index from i on that holds no white space of JSON
RECURSIVE SkipSpace(_, _)
SkipSpace(s, i) ==
    IF i > Len(s) \/ s[i] \notin JsonSpace THEN i ELSE SkipSpace(s, i + 1)

\* the end of the number literal read up to s[i], 0 for a literal cut short.
\* The states are those of the scanner: after the sign ("neg"), after a
\* leading zero ("0"), in the digits ("1"), after the point ("dot"), in the
\* digits after the point ("dot0"), after the e ("e"), after the sign of the
\* exponent ("esign") and in the digits of the exponent ("e0").
RECURSIVE numberEnd(_, _, _)
numberEnd(s, i, state) ==
    IF i <= Len(s) /\ IsDigit(s[i]) /\ state # "0"
    THEN numberEnd(s, i + 1,
                   CASE state = "neg" -> IF s[i] = "0" THEN "0" ELSE "1"
                     [] state = "1" -> "1"
                     [] state \in {"dot", "dot0"} -> "dot0"
                     [] state \in {"e", "esign", "e0"} -> "e0")
    ELSE IF i <= Len(s) /\ s[i] = "." /\ state \in {"0", "1"} THEN numberEnd(s, i + 1, "dot")
    ELSE IF i <= Len(s) /\ s[i] \in {"e", "E"} /\ state \in {"0", "1", "dot0"}
         THEN numberEnd(s, i + 1, "e")
    ELSE IF i <= Len(s) /\ s[i] \in {"+", "-"} /\ state = "e" THEN numberEnd(s, i + 1, "esign")
    ELSE IF state \in {"0", "1", "dot0", "e0"} THEN i
    ELSE 0

\* the number literal s[i..end - 1]
numberValue(s, i, end) ==
    IF end = 0 THEN NoJVal ELSE Scanned(JVal("num", SubSeq(s, i, end - 1), <<>>), end)

\* the number literal that begins at s[i]
scanNumber(s, i) == numberValue(s, i, numberEnd(s, IF s[i] = "-" THEN i + 1 ELSE i, "neg"))

\* s[i..i + 3] are hexadecimal digits
IsHex4(s, i) == i + 3 <= Len(s) /\ \A k \in i..(i + 3) : IsHex(s[k])

\* the string literal whose opening quote is before s[i]: the characters
\* below U+0020 are no part of one
RECURSIVE scanString(_, _, _)
RECURSIVE scanEscape(_, _, _)
RECURSIVE scanUnicode(_, _, _, _)
scanString(s, i, text) ==
    IF i > Len(s) THEN NoJVal
    ELSE IF s[i] = "\"" THEN Scanned(JVal("str", text, <<>>), i + 1)
    ELSE IF s[i] = "\\" THEN scanEscape(s, i, text)
    ELSE IF Code(s[i]) < 32 THEN NoJVal
    ELSE scanString(s, i + 1, Append(text, s[i]))

\* the escape at the backslash s[i]
scanEscape(s, i, text) ==
    IF i + 1 > Len(s) THEN NoJVal
    ELSE IF s[i + 1] \in {"\"", "\\", "/"} THEN scanString(s, i + 2, Append(text, s[i + 1]))
    ELSE IF s[i + 1] \in {"b", "f", "n", "r", "t"}
         THEN scanString(s, i + 2,
                         Append(text, CASE s[i + 1] = "b" -> Chr(8)
                                        [] s[i + 1] = "f" -> "\f"
                                        [] s[i + 1] = "n" -> "\n"
                                        [] s[i + 1] = "r" -> "\r"
                                        [] s[i + 1] = "t" -> "\t"))
    ELSE IF s[i + 1] = "u" /\ IsHex4(s, i + 2)
         THEN scanUnicode(s, i, text, HexRune(s, i + 2, i + 5, 0))
    ELSE NoJVal

\* the code point of the surrogate pair hi, lo
DecodeRune(hi, lo) == 65536 + (hi - 55296) * 1024 + (lo - 56320)

\* \uXXXX at the backslash s[i], of the value u: a surrogate pair is one
\* character, half a pair is U+FFFD
scanUnicode(s, i, text, u) ==
    IF /\ 55296 <= u /\ u <= 56319
       /\ i + 7 <= Len(s) /\ s[i + 6] = "\\" /\ s[i + 7] = "u"
       /\ IsHex4(s, i + 8)
       /\ HexRune(s, i + 8, i + 11, 0) \in 56320..57343
    THEN scanString(s, i + 12,
                    Append(text, Chr(DecodeRune(u, HexRune(s, i + 8, i + 11, 0)))))
    ELSE IF 55296 <= u /\ u <= 57343 THEN scanString(s, i + 6, Append(text, Unlisted))
    ELSE scanString(s, i + 6, Append(text, Chr(u)))

IsPrefixAt(s, i, word) == i + Len(word) - 1 <= Len(s) /\ SubSeq(s, i, i + Len(word) - 1) = word

\* true, false or null at s[i]
scanLiteral(s, i) ==
    IF IsPrefixAt(s, i, <<"t", "r", "u", "e">>) THEN Scanned(JVal("true", <<>>, <<>>), i + 4)
    ELSE IF IsPrefixAt(s, i, <<"f", "a", "l", "s", "e">>)
         THEN Scanned(JVal("false", <<>>, <<>>), i + 5)
    ELSE IF IsPrefixAt(s, i, <<"n", "u", "l", "l">>)
         THEN Scanned(JVal("null", <<>>, <<>>), i + 4)
    ELSE NoJVal

\* maxNestingDepth of the scanner: the arrays and objects that may be open
\* at one place of the text
maxNestingDepth == 10000

\* the value that begins at s[i], the elements of an array from s[i] on and
\* the members of an object from s[i] on; depth is the number of the arrays
\* and objects that are open (len(s.parseState))
RECURSIVE scanValue(_, _, _)
RECURSIVE scanOpen(_, _, _, _)
RECURSIVE scanElements(_, _, _, _)
RECURSIVE scanElement(_, _, _, _)
RECURSIVE scanMembers(_, _, _, _)
RECURSIVE scanKey(_, _, _, _)
RECURSIVE scanColon(_, _, _, _, _)
RECURSIVE scanMember(_, _, _, _, _)
RECURSIVE scanNext(_, _, _, _, _)

\* an opening bracket is one more array or object that is open
\* (pushParseState): more than maxNestingDepth of them are an error
\* ("exceeded max depth")
scanValue(s, i, depth) ==
    IF i > Len(s) THEN NoJVal
    ELSE IF s[i] \in {"[", "{"}
         THEN (IF depth + 1 > maxNestingDepth THEN NoJVal
               ELSE scanOpen(s, s[i] = "[", SkipSpace(s, i + 1), depth + 1))
    ELSE IF s[i] = "\"" THEN scanString(s, i + 1, <<>>)
    ELSE IF s[i] = "-" \/ IsDigit(s[i]) THEN scanNumber(s, i)
    ELSE scanLiteral(s, i)

\* an array (arr) or an object after its opening bracket, s[first] being what
\* comes after the white space
scanOpen(s, arr, first, depth) ==
    IF first <= Len(s) /\ s[first] = (IF arr THEN "]" ELSE "}")
    THEN Scanned(JVal(IF arr THEN "arr" ELSE "obj", <<>>, <<>>), first + 1)
    ELSE IF arr THEN scanElements(s, first, <<>>, depth)
    ELSE scanMembers(s, first, <<>>, depth)

scanElements(s, i, items, depth) == scanElement(s, items, scanValue(s, i, depth), depth)

\* e is the element read
scanElement(s, items, e, depth) ==
    IF ~e.ok THEN NoJVal
    ELSE scanNext(s, TRUE, Append(items, e.v), SkipSpace(s, e.i), depth)

scanMembers(s, i, items, depth) ==
    IF i > Len(s) \/ s[i] # "\"" THEN NoJVal
    ELSE scanKey(s, items, scanString(s, i + 1, <<>>), depth)

\* key is the key read
scanKey(s, items, key, depth) ==
    IF ~key.ok THEN NoJVal ELSE scanColon(s, items, key, SkipSpace(s, key.i), depth)

\* s[colon] is what comes after the key and the white space
scanColon(s, items, key, colon, depth) ==
    IF colon > Len(s) \/ s[colon] # ":" THEN NoJVal
    ELSE scanMember(s, items, key, scanValue(s, SkipSpace(s, colon + 1), depth), depth)

\* e is the value of the member read
scanMember(s, items, key, e, depth) ==
    IF ~e.ok THEN NoJVal
    ELSE scanNext(s, FALSE, Append(items, <<key.v.text, e.v>>), SkipSpace(s, e.i), depth)

\* after an element of an array (arr) or a member of an object, s[next] being
\* what comes after the white space
scanNext(s, arr, all, next, depth) ==
    IF next > Len(s) THEN NoJVal
    ELSE IF s[next] = (IF arr THEN "]" ELSE "}")
         THEN Scanned(JVal(IF arr THEN "arr" ELSE "obj", <<>>, all), next + 1)
    ELSE IF s[next] # "," THEN NoJVal
    ELSE IF arr THEN scanElements(s, SkipSpace(s, next + 1), all, depth)
    ELSE scanMembers(s, SkipSpace(s, next + 1), all, depth)

\* e is the value read at the beginning of the text
scanWhole(text, e) == IF e.ok /\ SkipSpace(text, e.i) > Len(text) THEN e ELSE NoJVal

\* checkValid: the text is one JSON value between white space, no array or
\* object being open at its beginning
scanJson(text) == scanWhole(text, scanValue(text, SkipSpace(text, 1), 0))

\* A Go slice: nil, or the elements v; back is its backing array, which a
\* second decoding into the slice fills again from its first element
Slice(set, v, back) == [set |-> set, v |-> v, back |-> back]
NilSlice == Slice(FALSE, <<>>, <<>>)

ZeroJsonPoint ==
    [Value |-> Zero(FALSE), Context |-> <<>>, Time |-> <<"0">>, Dimensions |-> Nil(EmptyMap)]

ZeroJsonPoints == [Name |-> <<>>, Points |-> NilSlice]

\* a value that is no number, no string, no array or no object where one is
\* expected: null leaves the value cur as it is, any other value is an error
DecodeOther(cur, j) == [ok |-> j.t = "null", v |-> cur]

\* literalStore into a string: null leaves the value as it is
DecodeString(cur, j) ==
    IF j.t = "str" THEN [ok |-> TRUE, v |-> j.text] ELSE DecodeOther(cur, j)

\* the float64 f of a literal, cur when the literal is out of range
StoreFloat(cur, f) == [ok |-> f.ok, v |-> IF f.ok THEN f.num ELSE cur]

\* into a float64: the literal through strconv.ParseFloat
DecodeFloat(cur, j) ==
    IF j.t = "num" THEN StoreFloat(cur, ParseFloat(j.text)) ELSE DecodeOther(cur, j)

MaxInt64 ==
    <<"9", "2", "2", "3", "3", "7", "2", "0", "3", "6", "8", "5", "4", "7", "7", "5", "8", "0", "7">>

\* the digits a are a number that is at most the digits b (no leading zero)
DigitsLeq(a, b) ==
    \/ Len(a) < Len(b)
    \/ /\ Len(a) = Len(b)
       /\ \/ a = b
          \/ \E k \in 1..Len(a) :
                /\ DigitVal(a[k]) < DigitVal(b[k])
                /\ \A m \in 1..(k - 1) : a[m] = b[m]

\* the int64 of the literal text, cur when it is none; d is the literal
\* without its sign
StoreInt(cur, text, d, fits) ==
    [ok |-> fits, v |-> IF ~fits THEN cur ELSE IF d = <<"0">> THEN d ELSE text]

\* the literal text, which is d after the sign, through
\* strconv.ParseInt(s, 10, 64)
ParseInt(cur, text, d) ==
    StoreInt(cur, text, d,
             /\ \A k \in 1..Len(d) : IsDigit(d[k])
             /\ \/ DigitsLeq(d, MaxInt64)
                \/ d # text /\ d = [MaxInt64 EXCEPT ![19] = "8"])

\* into an int64: the value is kept as its decimal digits
DecodeInt(cur, j) ==
    IF j.t = "num"
    THEN ParseInt(cur, j.text, IF Head(j.text) = "-" THEN Tail(j.text) ELSE j.text)
    ELSE DecodeOther(cur, j)

\* into a Dimensions: the members are put into the map the value holds
RECURSIVE DecodeEntries(_, _, _, _)
DecodeEntries(m, ok, items, k) ==
    IF k > Len(items) THEN [ok |-> ok, v |-> Some(m)]
    ELSE DecodeEntries(Put(m, items[k][1], DecodeString(<<>>, items[k][2]).v),
                       ok /\ DecodeString(<<>>, items[k][2]).ok, items, k + 1)

DecodeDimensions(cur, j) ==
    IF j.t = "obj" THEN DecodeEntries(IF cur.set THEN cur.v ELSE EmptyMap, TRUE, j.items, 1)
    ELSE IF j.t = "null" THEN [ok |-> TRUE, v |-> Nil(EmptyMap)]
    ELSE [ok |-> FALSE, v |-> cur]

\* the field of a key: the json tag that is the key, in either case ("" for
\* none)
FieldOf(key, tags) ==
    IF Len(key) = 1 /\ lower(key[1]) \in tags THEN lower(key[1]) ELSE ""

\* the value j into the field f of the JsonPoint p
DecodePointField(p, f, j) ==
    CASE f = "v" -> DecodeFloat(p.Value, j)
      [] f = "c" -> DecodeString(p.Context, j)
      [] f = "t" -> DecodeInt(p.Time, j)
      [] f = "d" -> DecodeDimensions(p.Dimensions, j)
      [] OTHER -> [ok |-> TRUE, v |-> <<>>]

\* p with the value r.v in its field f
StorePointField(p, f, r) ==
    CASE f = "v" -> [p EXCEPT !.Value = r.v]
      [] f = "c" -> [p EXCEPT !.Context = r.v]
      [] f = "t" -> [p EXCEPT !.Time = r.v]
      [] f = "d" -> [p EXCEPT !.Dimensions = r.v]
      [] OTHER -> p

\* into a JsonPoint
RECURSIVE DecodePointFields(_, _, _, _)
RECURSIVE DecodePointMember(_, _, _, _, _)
RECURSIVE DecodePointNext(_, _, _, _, _, _)
DecodePointFields(p, ok, items, k) ==
    IF k > Len(items) THEN [ok |-> ok, v |-> p]
    ELSE DecodePointMember(p, ok, items, k, FieldOf(items[k][1], {"v", "c", "t", "d"}))

\* member k is the field f
DecodePointMember(p, ok, items, k, f) ==
    DecodePointNext(p, ok, items, k, f, DecodePointField(p, f, items[k][2]))

\* r is the value of member k for the field f
DecodePointNext(p, ok, items, k, f, r) ==
    DecodePointFields(StorePointField(p, f, r), ok /\ r.ok, items, k + 1)

\* the pointer to the struct r.v
Pointer(r) == [ok |-> r.ok, v |-> Some(r.v)]

\* into a *JsonPoint: null is the nil pointer, an object is decoded into the
\* struct the pointer has or into a new one
DecodePoint(cur, j) ==
    IF j.t = "obj"
    THEN Pointer(DecodePointFields(IF cur.set THEN cur.v ELSE ZeroJsonPoint, TRUE, j.items, 1))
    ELSE IF j.t = "null" THEN [ok |-> TRUE, v |-> Nil(ZeroJsonPoint)]
    ELSE [ok |-> FALSE, v |-> cur]

\* into a []*JsonPoint: element k is decoded into element k of the backing
\* array; an empty array is a new empty slice, null the nil slice
RECURSIVE DecodePointElems(_, _, _, _, _)
RECURSIVE DecodePointElem(_, _, _, _, _, _)
DecodePointElems(back, ok, items, k, out) ==
    IF k > Len(items)
    THEN [ok |-> ok, v |-> Slice(TRUE, out, out \o SubSeq(back, Len(out) + 1, Len(back)))]
    ELSE DecodePointElem(back, ok, items, k, out,
             DecodePoint(IF k <= Len(back) THEN back[k] ELSE Nil(ZeroJsonPoint), items[k]))

\* e is element k
DecodePointElem(back, ok, items, k, out, e) ==
    DecodePointElems(back, ok /\ e.ok, items, k + 1, Append(out, e.v))

DecodePointSlice(cur, j) ==
    IF j.t = "arr"
    THEN (IF j.items = <<>> THEN [ok |-> TRUE, v |-> Slice(TRUE, <<>>, <<>>)]
          ELSE DecodePointElems(cur.back, TRUE, j.items, 1, <<>>))
    ELSE IF j.t = "null" THEN [ok |-> TRUE, v |-> NilSlice]
    ELSE [ok |-> FALSE, v |-> cur]

\* the value j into the field f of the JsonPoints w
DecodeWriteField(w, f, j) ==
    CASE f = "n" -> DecodeString(w.Name, j)
      [] f = "p" -> DecodePointSlice(w.Points, j)
      [] OTHER -> [ok |-> TRUE, v |-> <<>>]

\* w with the value r.v in its field f
StoreWriteField(w, f, r) ==
    CASE f = "n" -> [w EXCEPT !.Name = r.v]
      [] f = "p" -> [w EXCEPT !.Points = r.v]
      [] OTHER -> w

\* into a JsonPoints
RECURSIVE DecodeWriteFields(_, _, _, _)
RECURSIVE DecodeWriteMember(_, _, _, _, _)
RECURSIVE DecodeWriteNext(_, _, _, _, _, _)
DecodeWriteFields(w, ok, items, k) ==
    IF k > Len(items) THEN [ok |-> ok, v |-> w]
    ELSE DecodeWriteMember(w, ok, items, k, FieldOf(items[k][1], {"n", "p"}))

\* member k is the field f
DecodeWriteMember(w, ok, items, k, f) ==
    DecodeWriteNext(w, ok, items, k, f, DecodeWriteField(w, f, items[k][2]))

\* r is the value of member k for the field f
DecodeWriteNext(w, ok, items, k, f, r) ==
    DecodeWriteFields(StoreWriteField(w, f, r), ok /\ r.ok, items, k + 1)

\* the pointer to the JsonPoints r.v, its slice without the backing array
WritePointer(r) ==
    [ok |-> r.ok,
     v |-> Some([Name |-> r.v.Name,
                 Points |-> [set |-> r.v.Points.set, v |-> r.v.Points.v]])]

\* into a *JsonPoints
DecodeWrite(j) ==
    IF j.t = "obj" THEN WritePointer(DecodeWriteFields(ZeroJsonPoints, TRUE, j.items, 1))
    ELSE [ok |-> j.t = "null", v |-> Nil([Name |-> <<>>, Points |-> Nil(<<>>)])]

\* the slice of the elements decoded, an error when one of them is none
DecodeWrites(elem) ==
    IF \A k \in 1..Len(elem) : elem[k].ok
    THEN [ok |-> TRUE, writes |-> Some([k \in 1..Len(elem) |-> elem[k].v])]
    ELSE [ok |-> FALSE, writes |-> Nil(<<>>)]

\* into a []*JsonPoints, j being the text scanned
DecodeSlice(j) ==
    IF ~j.ok THEN [ok |-> FALSE, writes |-> Nil(<<>>)]
    ELSE IF j.v.t = "null" THEN [ok |-> TRUE, writes |-> Nil(<<>>)]
    ELSE IF j.v.t = "arr"
         THEN DecodeWrites([k \in 1..Len(j.v.items) |-> DecodeWrite(j.v.items[k])])
    ELSE [ok |-> FALSE, writes |-> Nil(<<>>)]

\* json.Unmarshal(text, &writes), writes an empty slice of no capacity: ok
\* is err == nil, writes the slice when it is
JsonUnmarshal(text) == DecodeSlice(scanJson(text))

-----------------------------------------------------------------------------
(* parseErrplaneOutput                                                     *)

\* JSON texts of the model's errplane plugins
JsonEmpty == <<"[", "]">>
JsonNull == <<"n", "u", "l", "l">>
JsonOne ==
    <<"[", "{", "\"", "n", "\"", ":", "\"", "m", "\"", ",", "\"", "p", "\"", ":",
      "[", "{", "\"", "v", "\"", ":", "1", ",", "\"", "d", "\"", ":", "{", "}",
      "}", "]", "}", "]">>
JsonNoDims ==
    <<"[", "{", "\"", "n", "\"", ":", "\"", "m", "\"", ",", "\"", "p", "\"", ":",
      "[", "{", "\"", "v", "\"", ":", "1", "}", "]", "}", "]">>

\* a write whose metric name "m|" holds a '|'
JsonBar ==
    <<"[", "{", "\"", "n", "\"", ":", "\"", "m", "|", "\"", ",", "\"", "p", "\"", ":",
      "[", "{", "\"", "v", "\"", ":", "1", ",", "\"", "d", "\"", ":", "{", "}",
      "}", "]", "}", "]">>

\* plugin.go:273-278: the output for what json.Unmarshal returned
errplaneDecoded(exitStatus, status, dec) ==
    IF ~dec.ok THEN ParseError
    ELSE PluginOutput(exitStatus, status, dec.writes, Nil(EmptyMap))

\* plugin.go:268-273 for the segments between the '|' of the line
errplaneSegments(exitStatus, statusAndMetrics) ==
    IF Len(statusAndMetrics) < 2
    THEN Panic      \* statusAndMetrics[1]: index out of range
    ELSE errplaneDecoded(exitStatus, TrimSpace(statusAndMetrics[1]),
                         JsonUnmarshal(TrimSpace(statusAndMetrics[2])))

parseErrplaneOutput(exitStatus, firstLine) ==
    errplaneSegments(exitStatus, Split(TrimSpace(firstLine), "|"))

-----------------------------------------------------------------------------
(* parseNagiosOutput                                                       *)

IN_QUOTED_FIELD == 0
IN_VALUE == 1
START == 2

\* plugin.go:340: the value stored for the metric that ends where a new
\* "name=" begins; the token read since the last space is the new name
ClosedValue(t) == t.value

\* One iteration of the tokenizer loop at index i (1-based): the new locals and
\* the index the next iteration starts at.
TokenStep(line, i, t) ==
    LET c == line[i]
    IN  CASE c = "'" ->
              (CASE t.state = IN_QUOTED_FIELD ->
                      IF i + 1 <= Len(line) /\ line[i + 1] = "'"
                      THEN [t EXCEPT !.token = Append(t.token, "'"), !.i = i + 2]
                      ELSE [t EXCEPT !.i = i + 1]
                 [] t.state = IN_VALUE ->
                      [t EXCEPT !.state = IN_QUOTED_FIELD,
                                !.token = <<>>,
                                !.metrics = Put(t.metrics, t.metricName, t.value \o t.token),
                                !.metricName = <<>>,
                                !.value = <<>>,
                                !.i = i + 1]
                 [] OTHER ->
                      [t EXCEPT !.state = IN_QUOTED_FIELD, !.i = i + 1])
          [] c = "=" ->
              (CASE t.state = IN_VALUE ->
                      [t EXCEPT !.metrics = Put(t.metrics, t.metricName, ClosedValue(t)),
                                !.metricName = t.token,
                                !.token = <<>>,
                                !.value = <<>>,
                                !.state = IN_VALUE,
                                !.i = i + 1]
                 [] t.state = START ->
                      [t EXCEPT !.metricName = t.token,
                                !.token = <<>>,
                                !.value = <<>>,
                                !.state = IN_VALUE,
                                !.i = i + 1]
                 [] OTHER ->
                      [t EXCEPT !.state = IN_VALUE,
                                !.metricName = t.token,
                                !.token = <<>>,
                                !.i = i + 1])
          [] c = " " ->
              (CASE t.state = IN_VALUE ->
                      [t EXCEPT !.value = (t.value \o <<" ">>) \o t.token,
                                !.token = <<>>, !.i = i + 1]
                 [] t.state = IN_QUOTED_FIELD ->
                      [t EXCEPT !.metricName = (t.metricName \o <<" ">>) \o t.token,
                                !.token = <<>>, !.i = i + 1]
                 [] OTHER ->
                      [t EXCEPT !.token = <<>>, !.i = i + 1])
          [] OTHER ->
              [t EXCEPT !.token = Append(t.token, c), !.i = i + 1]

\* the iterations of the loop at the indexes lo to hi, those at the lower
\* half of the indexes first; an index that the iteration before has stepped
\* over (the second quote of '') has no iteration
RECURSIVE TokenLoop(_, _, _, _)
TokenLoop(line, lo, hi, t) ==
    IF lo > hi \/ t.i > hi THEN t
    ELSE IF lo = hi THEN TokenStep(line, lo, t)
    ELSE TokenLoop(line, (lo + hi) \div 2 + 1, hi,
                   TokenLoop(line, lo, (lo + hi) \div 2, t))

\* plugin.go:366: the metric open where the line ends is stored
TokenEnd(t) == Put(t.metrics, t.metricName, t.value \o t.token)

\* plugin.go:307-366: metric name -> raw value text
Tokenize(metricsLine) ==
    TokenEnd(TokenLoop(metricsLine, 1, Len(metricsLine),
                [state |-> START, metricName |-> <<>>, value |-> <<>>,
                 token |-> <<>>, metrics |-> EmptyMap, i |-> 1]))

DropLast(s, n) == SubSeq(s, 1, Len(s) - n)

\* plugin.go:372-394: the unit of measure is cut from the value; "skip"
\* (empty), "panic" (index -1), or the text handed to ParseFloat
StripUnit(value, n) ==
    IF n = 0 THEN [kind |-> "skip", text |-> <<>>]
    ELSE CASE value[n] = "s" ->
                IF n < 2 THEN [kind |-> "panic", text |-> <<>>]
                ELSE IF value[n - 1] \in {"u", "m"}
                     THEN [kind |-> "text", text |-> DropLast(value, 2)]
                     ELSE [kind |-> "text", text |-> DropLast(value, 1)]
           [] value[n] = "B" ->
                IF n < 2 THEN [kind |-> "panic", text |-> <<>>]
                ELSE IF value[n - 1] \in {"K", "M", "G"}
                     THEN [kind |-> "text", text |-> DropLast(value, 2)]
                     ELSE [kind |-> "text", text |-> DropLast(value, 1)]
           [] value[n] \in {"%", "c"} -> [kind |-> "text", text |-> DropLast(value, 1)]
           [] OTHER -> [kind |-> "text", text |-> value]

StripFirst(value) == StripUnit(value, Len(value))

\* plugin.go:371-394 for one raw value
StripValue(raw) == StripFirst(Split(TrimSpace(raw), ";")[1])

\* plugin.go:397-401: the values ParseFloat accepted
MetricFloats(floats) ==
    [panic |-> FALSE,
     map |-> [k \in {x \in DOMAIN floats : floats[x].ok} |-> floats[k].num]]

\* plugin.go:370-397 for the stripped values; a value that panics ends the loop
MetricValues(values) ==
    IF \E k \in DOMAIN values : values[k].kind = "panic"
    THEN [panic |-> TRUE, map |-> EmptyMap]
    ELSE MetricFloats([k \in {x \in DOMAIN values : values[x].kind = "text"} |->
                            ParseFloat(values[k].text)])

\* plugin.go:368-402: the loop over the raw map, in any order of its keys
MetricsMap(metrics) == MetricValues([k \in DOMAIN metrics |-> StripValue(metrics[k])])

\* plugin.go:404: the output for the metric map
nagiosMetrics(exitStatus, status, mm) ==
    IF mm.panic THEN Panic
    ELSE PluginOutput(exitStatus, status, Nil(<<>>), Some(mm.map))

\* plugin.go:284-298 for the segments between the '|' of the line
nagiosSegments(exitStatus, statusAndMetrics) ==
    IF Len(statusAndMetrics) > 2 THEN ParseError
    ELSE IF Len(statusAndMetrics) = 1
         THEN PluginOutput(exitStatus, TrimSpace(statusAndMetrics[1]), Nil(<<>>),
                           Nil(EmptyMap))
    ELSE nagiosMetrics(exitStatus, TrimSpace(statusAndMetrics[1]),
                       MetricsMap(Tokenize(TrimSpace(statusAndMetrics[2]))))

parseNagiosOutput(exitStatus, firstLine) ==
    nagiosSegments(exitStatus, Split(TrimSpace(firstLine), "|"))

parsePluginOutput(outputType, exitStatus, firstLine) ==
    CASE outputType = "nagios" -> parseNagiosOutput(exitStatus, firstLine)
      [] outputType = "errplane" -> parseErrplaneOutput(exitStatus, firstLine)
      [] OTHER -> ParseError

-----------------------------------------------------------------------------
(* the agent: what is installed and configured                             *)

MaxInvs == 2

PluginNames == {"ng", "ep"}

DEFAULT_INSTANCES == <<"">>

\* The descriptors of the installed plugins (parsePluginInfo): "ng" prints the
\* nagios format and asks for the rate of the metric "a", "ep" prints the
\* errplane format and asks for the rates of the metrics with an "m"; both
\* hold a pattern that is no regular expression.
PluginMetadata(name) ==
    [Name |-> name,
     Output |-> IF name = "ng" THEN "nagios" ELSE "errplane",
     CalculateRates |-> IF name = "ng" THEN {<<"^", "a", "$">>, <<"(">>}
                        ELSE {<<"m">>, <<"(">>}]

\* AgentConfiguration.Plugins: plugin name -> instances, Nil when the name is
\* not configured. The configurations the backend hands out: "ng" with no
\* instance, and "ng" beside "ep", each with the instance i1.
NoConfig == [n \in PluginNames |-> Nil(<<>>)]

Configs ==
    {[NoConfig EXCEPT !["ng"] = Some(<<>>)],
     [NoConfig EXCEPT !["ng"] = Some(<<"i1">>), !["ep"] = Some(<<"i1">>)]}

\* GetPluginsToRun: an error or a configuration
GetPluginsToRun ==
    {[ok |-> FALSE, config |-> NoConfig]} \cup {[ok |-> TRUE, config |-> c] : c \in Configs}

\* fmt.Sprintf("%s/%s", plugin.Name, instance.Name)
cacheKey(plugin, instance) == (plugin \o "/") \o instance

Keys == {cacheKey(n, i) : n \in PluginNames, i \in {"", "i1"}}

\* The first lines the model's plugins print.
NgMetric == <<"o", "k", "|", "a", "=", "1">>
NgStatusOnly == <<"o", "k">>
NgUnitOnly == <<"o", "k", "|", "a", "=", "s">>
NgTwoBars == <<"a", "|", "b", "|", "c">>
EpPoint == <<"o", "k", "|">> \o JsonOne
EpBadJson == <<"o", "k", "|", "x">>
EpNoDims == <<"o", "k", "|">> \o JsonNoDims
EpNilWrite == <<"o", "k", "|", "[", "n", "u", "l", "l", "]">>

AgentLines(output) ==
    IF output = "nagios" THEN {NgMetric, NgTwoBars}
    ELSE {EpPoint, NgStatusOnly, EpBadJson, EpNoDims, EpNilWrite}

\* exit codes of the model's plugins; a process ended by a signal has -1
\* (syscall.WaitStatus.ExitStatus)
AgentExitCodes == {0, 4}

SignalStatus == 0 - 1

-----------------------------------------------------------------------------
(* one runPlugin goroutine with its child process and its watchdog         *)

NoPluginOutput == NoOutput("none")

NewInv(plugin, instance) ==
    [plugin |-> plugin, instance |-> instance,
     pc |-> "start",        \* where runPlugin is
     child |-> "none",      \* none, running, exited, signaled, killed
     reaped |-> FALSE,      \* cmd.Wait returned
     exit |-> 0,            \* ExitStatus() of the ended child
     line |-> <<>>,         \* lines[0], once runPlugin has looked at it
     wd |-> "none",         \* killPlugin: none, select, received, timedout
     kill |-> FALSE,        \* cmd.Process.Kill was called
     err |-> "nil",         \* the error runPlugin sends on ch
     out |-> NoPluginOutput,   \* the parsed output
     prev |-> Nil(NoPluginOutput), \* what OutputCache.Get returned
     currentValues |-> {},  \* the keys of the map currentValues (plugin.go:175)
     emitted |-> {},        \* the points this invocation reported
     wrote |-> FALSE]       \* the deferred OutputCache.Set ran

\* ch is unbuffered (make(chan error)): a send completes only while killPlugin
\* waits in its select.
CanSendBuffered(r) == TRUE
CanSend(r) == r.wd = "select"

Point(kind, name) == [kind |-> kind, name |-> name]

StatusPoint == Point("status", <<>>)

NamesOf(points) == {p.name : p \in points}

\* the writes of an output that are no nil pointers, and their names
Writes(output) ==
    IF output.points.set
    THEN {output.points.v[j].v : j \in {k \in 1..Len(output.points.v) : output.points.v[k].set}}
    ELSE {}

\* currentValues without the MatchString test: every reported metric
CurrentValuesAll(meta, output) ==
    IF output.points.set
    THEN {w.Name : w \in {x \in Writes(output) : Len(x.Points.v) > 0}}
    ELSE IF output.metrics.set
    THEN DOMAIN output.metrics.v
    ELSE {}

\* plugin.go:184-189 and 212-217: name matches one of the plugin's
\* calculate_rates patterns; a pattern that is no regular expression is
\* logged and matches nothing
MatchesRate(meta, name) ==
    \E pat \in meta.CalculateRates : MatchString(pat, name).matched

\* currentValues (plugin.go:175-225): the names of the reported metrics that
\* match one of the plugin's calculate_rates patterns
CurrentValues(meta, output) ==
    {n \in CurrentValuesAll(meta, output) : MatchesRate(meta, n)}

\* plugin.go:182-200: the loop over the writes dereferences a nil pointer
\* (write.Name of a nil write, write.Points[0].Value of a nil first point of
\* a write that a pattern matches, point.Dimensions of a nil point) or
\* assigns into a nil map (point.Dimensions["instance"])
WritesPanic(meta, instance, output) ==
    /\ output.points.set
    /\ \E j \in 1..Len(output.points.v) :
          \/ ~output.points.v[j].set
          \/ /\ Len(output.points.v[j].v.Points.v) > 0
             /\ ~output.points.v[j].v.Points.v[1].set
             /\ MatchesRate(meta, output.points.v[j].v.Name)
          \/ /\ instance # ""
             /\ \E k \in 1..Len(output.points.v[j].v.Points.v) :
                   \/ ~output.points.v[j].v.Points.v[k].set
                   \/ ~output.points.v[j].v.Points.v[k].v.Dimensions.set

\* the metric points of one output: SendHttp of the writes (errplane), one
\* report per entry of the metric map (nagios)
MetricPoints(output) ==
    IF output.points.set
    THEN {Point("metric", w.Name) : w \in Writes(output)}
    ELSE IF output.metrics.set
    THEN {Point("metric", n) : n \in DOMAIN output.metrics.v}
    ELSE {}

\* plugin.go:240-249: one rate per metric of the previous sample's metric map
\* that is among the current values
RatePoints(previousOutput, currentValues) ==
    IF previousOutput.metrics.set
    THEN {Point("rate", n) : n \in (DOMAIN previousOutput.metrics.v) \cap currentValues}
    ELSE {}

\* the characters of a string
Chars(str) == [k \in 1..Len(str) |-> SubSeq(str, k, k)]

\* plugin.go:195-199: point.Dimensions["instance"] = instance.Name for the
\* point of a write, where there is an instance name
InstancePoint(instance, point) ==
    IF instance = "" THEN point
    ELSE [point EXCEPT !.v.Dimensions.v = Put(@, Chars("instance"), Chars(instance))]

\* plugin.go:194-199: write.Name = "plugins.<plugin>.<name>", and the
\* instance name in the dimensions of the points of the write
RewrittenWrite(plugin, instance, write) ==
    [write EXCEPT
        !.v.Name = ((Chars("plugins.") \o Chars(plugin)) \o <<".">>) \o @,
        !.v.Points.v = [k \in 1..Len(@) |-> InstancePoint(instance, @[k])]]

\* plugin.go:182-200: output.points holds pointers, so the loop over the
\* writes changes the output itself: this is the output after the loop
Rewritten(plugin, instance, output) ==
    IF output.points.set
    THEN [output EXCEPT
             !.points.v = [j \in 1..Len(@) |-> RewrittenWrite(plugin, instance, @[j])]]
    ELSE output

-----------------------------------------------------------------------------
(* runPlugin, step by step between its blocking calls                      *)

\* plugin.go:114-134: StdoutPipe and Start succeed, the watchdog is started
RunPluginStart(i) ==
    /\ ~crashed
    /\ invs[i].pc = "start"
    /\ invs' = [invs EXCEPT ![i] = [@ EXCEPT !.pc = "read", !.child = "running",
                                              !.wd = "select"]]
    /\ UNCHANGED <<previousConfig, OutputCache, crashed, lastFetched, tick, pin, pres>>

\* plugin.go:122-131: StdoutPipe or Start fails, runPlugin returns
RunPluginStartFails(i) ==
    /\ ~crashed
    /\ invs[i].pc = "start"
    /\ invs' = [invs EXCEPT ![i] = [@ EXCEPT !.pc = "done"]]
    /\ UNCHANGED <<previousConfig, OutputCache, crashed, lastFetched, tick, pin, pres>>

\* the child exits with a code
ChildExit(i, code) ==
    /\ ~crashed
    /\ invs[i].child = "running"
    /\ invs' = [invs EXCEPT ![i] = [@ EXCEPT !.child = "exited", !.exit = code]]
    /\ UNCHANGED <<previousConfig, OutputCache, crashed, lastFetched, tick, pin, pres>>

\* the child is ended by a signal that is not the watchdog's
ChildSignaled(i) ==
    /\ ~crashed
    /\ invs[i].child = "running"
    /\ invs' = [invs EXCEPT ![i] = [@ EXCEPT !.child = "signaled", !.exit = SignalStatus]]
    /\ UNCHANGED <<previousConfig, OutputCache, crashed, lastFetched, tick, pin, pres>>

\* plugin.go:136,143: ReadAll returns at the end of the child's output
ReadAll(i) ==
    /\ ~crashed
    /\ invs[i].pc = "read"
    /\ invs[i].child \in {"exited", "signaled", "killed"}
    /\ invs' = [invs EXCEPT ![i] = [@ EXCEPT !.pc = "wait"]]
    /\ UNCHANGED <<previousConfig, OutputCache, crashed, lastFetched, tick, pin, pres>>

\* plugin.go:136-139: ReadAll returns an error, whatever the child is doing
ReadAllFails(i) ==
    /\ ~crashed
    /\ invs[i].pc = "read"
    /\ invs' = [invs EXCEPT ![i] = [@ EXCEPT !.pc = "sendReadErr", !.err = "read"]]
    /\ UNCHANGED <<previousConfig, OutputCache, crashed, lastFetched, tick, pin, pres>>

\* plugin.go:145: cmd.Wait reaps the ended child; its error is nil for exit
\* code 0, an ExitError that Exited() for another code, one that did not for a
\* signal
Wait(i) ==
    /\ ~crashed
    /\ invs[i].pc = "wait"
    /\ invs[i].child \in {"exited", "signaled", "killed"}
    /\ invs' = [invs EXCEPT ![i] =
            [@ EXCEPT !.pc = "send", !.reaped = TRUE,
                      !.err = IF invs[i].child = "exited"
                              THEN (IF invs[i].exit = 0 THEN "nil" ELSE "exit")
                              ELSE "signal"]]
    /\ UNCHANGED <<previousConfig, OutputCache, crashed, lastFetched, tick, pin, pres>>

\* plugin.go:139-140 and 146 with killPlugin's case err := <-ch
\* (plugin.go:409-413): the send completes, the watchdog that received it kills
\* the process when the error is an ExitError that did not exit, and ends
Send(i) ==
    LET r == invs[i]
    IN  /\ ~crashed
        /\ r.pc \in {"send", "sendReadErr"}
        /\ CanSend(r)
        /\ invs' = [invs EXCEPT ![i] =
                [@ EXCEPT !.pc = IF r.pc = "send" THEN "parse" ELSE "done",
                          !.wd = IF r.wd = "select" THEN "received" ELSE r.wd,
                          !.kill = r.kill \/ (r.wd = "select" /\ r.err = "signal")]]
        /\ UNCHANGED <<previousConfig, OutputCache, crashed, lastFetched, tick, pin, pres>>

\* killPlugin's case <-time.After(AgentConfig.Sleep) (plugin.go:414-420): Kill
\* ends a running child and does nothing to one that has ended
killPluginTimeout(i) ==
    LET r == invs[i]
    IN  /\ ~crashed
        /\ r.wd = "select"
        /\ invs' = [invs EXCEPT ![i] =
                [@ EXCEPT !.wd = "timedout", !.kill = TRUE,
                          !.child = IF r.child = "running" THEN "killed" ELSE r.child,
                          !.exit = IF r.child = "running" THEN SignalStatus ELSE r.exit]]
        /\ UNCHANGED <<previousConfig, OutputCache, crashed, lastFetched, tick, pin, pres>>

\* plugin.go:165 with PluginStateOutput.String: the output is a panic of the
\* parser, or its state is none that String() names
Panics(output) == output.kind = "panic" \/ String(output.state) = "panic"

\* plugin.go:151-172 for the output parsed: an error is logged and ends the
\* run, a panic ends the agent, the status of any other output is reported
RunPluginParsed(i, line, output) ==
    /\ ~crashed
    /\ invs[i].pc = "parse"
    /\ invs' = [invs EXCEPT ![i] =
            [@ EXCEPT !.pc = IF output.kind = "error" THEN "done"
                             ELSE IF Panics(output) THEN "panic"
                             ELSE IF output.points.set THEN "http"
                             ELSE IF MetricPoints(output) # {} THEN "metrics"
                             ELSE "get",
                      !.line = line,
                      !.out = output,
                      !.emitted = IF output.kind = "error" \/ Panics(output)
                                  THEN @ ELSE {StatusPoint}]]
    /\ crashed' = (output.kind # "error" /\ Panics(output))
    /\ UNCHANGED <<previousConfig, OutputCache, lastFetched, tick, pin, pres>>

\* plugin.go:148-172 for the first line the child printed: parse it and
\* report the status
RunPluginParse(i, line) ==
    RunPluginParsed(i, line,
                    parsePluginOutput(PluginMetadata(invs[i].plugin).Output,
                                      invs[i].exit, line))

\* plugin.go:175-203: the loop over the writes of an errplane output, which
\* fills currentValues and rewrites the writes, then ep.SendHttp with all of
\* them
RunPluginSendHttp(i) ==
    LET r    == invs[i]
        meta == PluginMetadata(r.plugin)
    IN  /\ ~crashed
        /\ r.pc = "http"
        /\ IF WritesPanic(meta, r.instance, r.out)
           THEN /\ invs' = [invs EXCEPT ![i] = [@ EXCEPT !.pc = "panic"]]
                /\ crashed' = TRUE
           ELSE /\ invs' = [invs EXCEPT ![i] =
                        [@ EXCEPT !.pc = "get",
                                  !.currentValues = CurrentValues(meta, r.out),
                                  !.out = Rewritten(r.plugin, r.instance, r.out),
                                  !.emitted = @ \cup MetricPoints(r.out)]]
                /\ UNCHANGED crashed
        /\ UNCHANGED <<previousConfig, OutputCache, lastFetched, tick, pin, pres>>

\* plugin.go:211-224: one turn of the loop over the metric map of a nagios
\* output, in the order the map gives: the metric name is a key of
\* currentValues when a pattern matches it, and it is reported
RunPluginReportMetric(i, name) ==
    LET r    == invs[i]
        left == MetricPoints(r.out) \ r.emitted
    IN  /\ ~crashed
        /\ r.pc = "metrics"
        /\ Point("metric", name) \in left
        /\ invs' = [invs EXCEPT ![i] =
                [@ EXCEPT !.pc = IF left = {Point("metric", name)} THEN "get" ELSE "metrics",
                          !.currentValues =
                              @ \cup (CurrentValues(PluginMetadata(r.plugin), r.out) \cap {name}),
                          !.emitted = @ \cup {Point("metric", name)}]]
        /\ UNCHANGED <<previousConfig, OutputCache, crashed, lastFetched, tick, pin, pres>>

\* plugin.go:230-231: OutputCache.Get of the key
RunPluginGet(i) ==
    LET r == invs[i]
    IN  /\ ~crashed
        /\ r.pc = "get"
        /\ invs' = [invs EXCEPT ![i] =
                [@ EXCEPT !.pc = "rates", !.prev = OutputCache[cacheKey(r.plugin, r.instance)]]]
        /\ UNCHANGED <<previousConfig, OutputCache, crashed, lastFetched, tick, pin, pres>>

\* the rates that runPlugin has still to report
RatesLeft(r) ==
    IF r.prev.set THEN RatePoints(r.prev.v, r.currentValues) \ r.emitted
    ELSE {}

\* plugin.go:240-249: one turn of the loop over the metric map of the
\* previous output: the report of the rate of name
RunPluginRate(i, name) ==
    LET r == invs[i]
    IN  /\ ~crashed
        /\ r.pc = "rates"
        /\ Point("rate", name) \in RatesLeft(r)
        /\ invs' = [invs EXCEPT ![i] = [@ EXCEPT !.emitted = @ \cup {Point("rate", name)}]]
        /\ UNCHANGED <<previousConfig, OutputCache, crashed, lastFetched, tick, pin, pres>>

\* plugin.go:232 at the return of line 235 or after the loop of lines
\* 240-249: the deferred OutputCache.Set of the output
RunPluginSet(i) ==
    LET r == invs[i]
    IN  /\ ~crashed
        /\ r.pc = "rates"
        /\ RatesLeft(r) = {}
        /\ invs' = [invs EXCEPT ![i] = [@ EXCEPT !.pc = "done", !.wrote = TRUE]]
        /\ OutputCache' = [OutputCache EXCEPT ![cacheKey(r.plugin, r.instance)] = Some(r.out)]
        /\ UNCHANGED <<previousConfig, crashed, lastFetched, tick, pin, pres>>

-----------------------------------------------------------------------------
(* monitorPlugins: one iteration of its loop                               *)

\* getAvailablePlugins: the names the registry resolves on a tick; a plugin
\* may be missing from the scan, and the map is nil or empty when a directory
\* cannot be read or holds no plugin
getAvailablePlugins == SUBSET PluginNames

\* the pass without DEFAULT_INSTANCES: a name with no instance launches nothing
RECURSIVE LaunchesNoDefault(_, _, _)
LaunchesNoDefault(names, config, plugins) ==
    IF names = {} THEN <<>>
    ELSE LET name      == CHOOSE n \in names : TRUE
             instances == config[name].v
             here      == IF config[name].set /\ name \in plugins
                          THEN [k \in 1..Len(instances) |-> <<name, instances[k]>>]
                          ELSE <<>>
         IN  here \o LaunchesNoDefault(names \ {name}, config, plugins)

\* plugin.go:92-106: the (plugin, instance) pairs one pass over config.Plugins
\* hands to "go runPlugin", in a fixed order of the names
RECURSIVE Launches(_, _, _)
Launches(names, config, plugins) ==
    IF names = {} THEN <<>>
    ELSE LET name      == CHOOSE n \in names : TRUE
             instances == IF Len(config[name].v) = 0 THEN DEFAULT_INSTANCES
                          ELSE config[name].v
             here      == IF config[name].set /\ name \in plugins
                          THEN [k \in 1..Len(instances) |-> <<name, instances[k]>>]
                          ELSE <<>>
         IN  here \o Launches(names \ {name}, config, plugins)

NoTick == [ran |-> FALSE, fetchOk |-> FALSE, plugins |-> {}, launched |-> {}, count |-> 0]

\* plugin.go:77-110 with the result of GetPluginsToRun and of
\* getAvailablePlugins. No statement assigns previousConfig.
monitorPlugins(res, plugins) ==
    LET config == IF res.ok THEN Some(res.config) ELSE previousConfig
        launch == IF config.set THEN Launches(PluginNames, config.v, plugins) ELSE <<>>
    IN  /\ ~crashed
        /\ Len(invs) + Len(launch) <= MaxInvs
        /\ invs' = invs \o [k \in 1..Len(launch) |-> NewInv(launch[k][1], launch[k][2])]
        /\ lastFetched' = IF res.ok THEN Some(res.config) ELSE lastFetched
        /\ tick' = [ran |-> TRUE, fetchOk |-> res.ok, plugins |-> plugins,
                    launched |-> {launch[k] : k \in 1..Len(launch)},
                    count |-> Len(launch)]
        /\ UNCHANGED <<previousConfig, OutputCache, crashed, pin, pres>>

-----------------------------------------------------------------------------
(* the inputs of the parser harness                                        *)

MaxTokens == 2
MaxRawLen == 3

ExitStatuses == {SignalStatus, 0, 1, 2, 3, 4}

Name(text, quoted) == [text |-> text, quoted |-> quoted]

RECURSIVE Escape(_)
Escape(s) ==
    IF s = <<>> THEN <<>>
    ELSE (IF Head(s) = "'" THEN <<"'", "'">> ELSE <<Head(s)>>) \o Escape(Tail(s))

RenderName(n) == IF n.quoted THEN (<<"'">> \o Escape(n.text)) \o <<"'">> ELSE n.text

UnquotedNames == {Name(<<"a">>, FALSE), Name(<<"b">>, FALSE), Name(<<"a", "b">>, FALSE)}

QuotedNames ==
    {Name(<<"a">>, TRUE), Name(<<"a", " ", "b">>, TRUE), Name(<<"a", "'", "b">>, TRUE),
     Name(<<"a", "'", "b", " ", "c">>, TRUE)}

One == Finite(FALSE, <<"1">>, 0)
Two == Finite(FALSE, <<"2">>, 0)

\* number texts with the float64 they denote
Numbers ==
    {[text |-> <<"1">>, num |-> One],
     [text |-> <<"2">>, num |-> Two],
     [text |-> <<"1", "0", "0">>, num |-> Finite(FALSE, <<"1">>, 2)],
     [text |-> <<"0", ".", "5">>, num |-> Finite(FALSE, <<"5">>, 0 - 1)],
     [text |-> <<"1", "e", "1", "0">>, num |-> Finite(FALSE, <<"1">>, 10)],
     [text |-> <<"-", "I", "n", "f">>, num |-> Inf(TRUE)]}

\* 9007199254740993 with 901 zeros after it and the exponent -901: a numeral
\* of 917 digits, more than the decimalDigits that strconv's decimal holds; the
\* number it writes is 2^53 + 1, and the float64 nearest to it is 2^53
LongNumber ==
    [text |-> (<<"9", "0", "0", "7", "1", "9", "9", "2", "5", "4", "7", "4", "0", "9", "9", "3">>
               \o [k \in 1..(decimalDigits + 101) |-> "0"])
              \o <<"e", "-", "9", "0", "1">>,
     num |-> Finite(FALSE, <<"9", "0", "0", "7", "1", "9", "9", "2", "5", "4", "7", "4", "0", "9", "9", "2">>, 0)]

Units ==
    {<<>>, <<"s">>, <<"m", "s">>, <<"u", "s">>, <<"B">>, <<"K", "B">>, <<"M", "B">>,
     <<"G", "B">>, <<"%">>, <<"c">>}

Thresholds == {<<>>, <<";", ";", ";", ";">>, <<";", "1", ";", "2">>}

NumValue(n, unit, thr) ==
    [kind |-> "num", text |-> n.text, num |-> n.num, unit |-> unit, thr |-> thr]

JunkValue(text) ==
    [kind |-> "junk", text |-> text, num |-> Zero(FALSE), unit |-> <<>>, thr |-> <<>>]

NumValues == {NumValue(n, u, t) : n \in Numbers, u \in Units, t \in Thresholds}

\* values that are no number: empty, a unit alone, letters, thresholds alone
JunkValues ==
    {JunkValue(<<>>), JunkValue(<<"s">>), JunkValue(<<"B">>), JunkValue(<<"%">>),
     JunkValue(<<"c">>), JunkValue(<<"x">>), JunkValue(<<"m", "s">>),
     JunkValue(<<"1", "x">>), JunkValue(<<";", "1">>)}

RenderValue(v) == IF v.kind = "num" THEN (v.text \o v.unit) \o v.thr ELSE v.text

Token(name, val) == [name |-> name, val |-> val]

RenderToken(t) == (RenderName(t.name) \o <<"=">>) \o RenderValue(t.val)

RECURSIVE RenderTokens(_)
RenderTokens(toks) ==
    IF Len(toks) = 0 THEN <<>>
    ELSE IF Len(toks) = 1 THEN RenderToken(toks[1])
    ELSE (RenderToken(toks[1]) \o <<" ">>) \o RenderTokens(Tail(toks))

RichTokens == {Token(n, v) : n \in UnquotedNames \cup QuotedNames, v \in NumValues \cup JunkValues}

SmallTokens ==
    {Token(n, v) : n \in UnquotedNames \cup {Name(<<"a", " ", "b">>, TRUE)},
                   v \in {NumValue([text |-> <<"1">>, num |-> One], <<>>, <<>>),
                          NumValue([text |-> <<"2">>, num |-> Two], <<>>, <<>>),
                          NumValue([text |-> <<"2">>, num |-> Two], <<"s">>, <<>>),
                          JunkValue(<<"s">>), JunkValue(<<"x">>)}}

\* the long numeral alone, with a unit, with thresholds
LongTokens ==
    {Token(Name(<<"a">>, FALSE), NumValue(LongNumber, u, t)) :
        u \in {<<>>, <<"m", "s">>}, t \in {<<>>, <<";", "1", ";", "2">>}}

\* the long numeral with a short one after it
LongPair ==
    <<Token(Name(<<"a">>, FALSE), NumValue(LongNumber, <<>>, <<>>)),
      Token(Name(<<"b">>, FALSE), NumValue([text |-> <<"2">>, num |-> Two], <<>>, <<>>))>>

TokenSeqs ==
    {<<t>> : t \in RichTokens \cup LongTokens} \cup
    UNION {[1..k -> SmallTokens] : k \in 2..MaxTokens} \cup
    {LongPair}

Message == <<"o", "k">>

Input(fmt, exit, shape, toks, json, line) ==
    [fmt |-> fmt, exit |-> exit, shape |-> shape, toks |-> toks, json |-> json,
     line |-> line]

\* nagios lines "ok | <tokens>"
TokenInputs ==
    {Input("nagios", e, "tokens", toks, <<>>,
           (Message \o <<" ", "|", " ">>) \o RenderTokens(toks)) :
        e \in ExitStatuses, toks \in TokenSeqs}

RawAlphabet == {"a", "=", "'", " ", "1", "s", "|", NBSP}

RawLines == UNION {[1..k -> RawAlphabet] : k \in 0..MaxRawLen}

\* any short line, for either format
RawInputs ==
    {Input(f, e, "raw", <<>>, <<>>, l) :
        f \in {"nagios", "errplane"}, e \in ExitStatuses, l \in RawLines}

\* an array of white space, a nil write, a write of no field, a write of no
\* point, a nil point, a point whose value is 2.5
JsonBlank == <<"[", " ", "]">>
JsonNilWrite == <<"[", "n", "u", "l", "l", "]">>
JsonBareWrite == <<"[", "{", "}", "]">>
JsonNameOnly == <<"[", "{", "\"", "n", "\"", ":", "\"", "m", "\"", "}", "]">>
JsonNilPoint == <<"[", "{", "\"", "n", "\"", ":", "\"", "m", "\"", ",", "\"", "p", "\"", ":", "[", "n", "u", "l", "l", "]", "}", "]">>
JsonFraction == <<"[", "{", "\"", "n", "\"", ":", "\"", "m", "\"", ",", "\"", "p", "\"", ":", "[", "{", "\"", "v", "\"", ":", "2", ".", "5", "}", "]", "}", "]">>

\* "[]" with a vertical tab after it, which TrimSpace removes
JsonThenTab == Append(JsonEmpty, VT)

\* "[]" with a vertical tab inside, which is no white space of JSON
JsonTabInside == <<"[", VT, "]">>

JsonTexts ==
    {JsonEmpty, JsonNull, JsonOne, JsonNoDims, JsonBar, JsonBlank, JsonNilWrite,
     JsonBareWrite, JsonNameOnly, JsonNilPoint, JsonFraction, JsonThenTab, JsonTabInside,
     <<>>, <<"[">>, <<"x">>, <<"{", "}">>, <<"1">>, <<"[", "1", "]">>}

\* errplane lines "ok | <json>", and the same without the '|'
ErrplaneInputs ==
    {Input("errplane", e, "json", <<>>, j, (Message \o <<" ", "|", " ">>) \o j) :
        e \in ExitStatuses, j \in JsonTexts}
    \cup
    {Input("errplane", e, "nobar", <<>>, j, (Message \o <<" ">>) \o j) :
        e \in ExitStatuses, j \in JsonTexts}

ParseInputs == TokenInputs \cup RawInputs \cup ErrplaneInputs

NoInput == Input("nagios", 0, "none", <<>>, <<>>, <<>>)

\* the harness applies parsePluginOutput to its input
Parse ==
    /\ pres.kind = "none"
    /\ pres' = parsePluginOutput(pin.fmt, pin.exit, pin.line)
    /\ UNCHANGED <<previousConfig, invs, OutputCache, crashed, lastFetched, tick, pin>>

-----------------------------------------------------------------------------
(* specifications                                                          *)

InitAgent ==
    /\ previousConfig = Nil(NoConfig)
    /\ invs = <<>>
    /\ OutputCache = [k \in Keys |-> Nil(NoPluginOutput)]
    /\ crashed = FALSE
    /\ lastFetched = Nil(NoConfig)
    /\ tick = NoTick

Init ==
    /\ InitAgent
    /\ pin = NoInput
    /\ pres = NoPluginOutput

Next ==
    \/ \E res \in GetPluginsToRun, plugins \in getAvailablePlugins :
          monitorPlugins(res, plugins)
    \/ \E i \in 1..Len(invs) : RunPluginStart(i)
    \/ \E i \in 1..Len(invs) : RunPluginStartFails(i)
    \/ \E i \in 1..Len(invs) :
          \E code \in AgentExitCodes : ChildExit(i, code)
    \/ \E i \in 1..Len(invs) : ChildSignaled(i)
    \/ \E i \in 1..Len(invs) : ReadAll(i)
    \/ \E i \in 1..Len(invs) : ReadAllFails(i)
    \/ \E i \in 1..Len(invs) : Wait(i)
    \/ \E i \in 1..Len(invs) : Send(i)
    \/ \E i \in 1..Len(invs) : killPluginTimeout(i)
    \/ \E i \in 1..Len(invs) :
          \E line \in AgentLines(PluginMetadata(invs[i].plugin).Output) :
              RunPluginParse(i, line)
    \/ \E i \in 1..Len(invs) : RunPluginSendHttp(i)
    \/ \E i \in 1..Len(invs) :
          \E name \in NamesOf(MetricPoints(invs[i].out)) : RunPluginReportMetric(i, name)
    \/ \E i \in 1..Len(invs) : RunPluginGet(i)
    \/ \E i \in 1..Len(invs) :
          \E name \in NamesOf(RatesLeft(invs[i])) : RunPluginRate(i, name)
    \/ \E i \in 1..Len(invs) : RunPluginSet(i)

Spec == Init /\ [][Next]_vars

InitParse ==
    /\ InitAgent
    /\ pin \in ParseInputs
    /\ pres = NoPluginOutput

NextParse == Parse

SpecParse == InitParse /\ [][NextParse]_vars

-----------------------------------------------------------------------------
(* the rate tracker: lines 148-249 of two runPlugin goroutines whose        *)
(* children have exited and whose watchdogs have received                   *)

\* first lines with a metric "a", which matches the calculate_rates pattern
\* "a", and a metric "b", which matches none
NgTwoMetrics == <<"o", "k", "|", "a", "=", "1", " ", "b", "=", "2">>
NgOtherMetric == <<"o", "k", "|", "b", "=", "2">>

RateLines(output) ==
    AgentLines(output) \cup
    (IF output = "nagios" THEN {NgStatusOnly, NgUnitOnly, NgTwoMetrics, NgOtherMetric} ELSE {})

\* exit codes of the plugins of this harness: OK, CRITICAL and one that is no
\* nagios status
RateExitCodes == {0, 2, 4}

\* runPlugin at plugin.go:148: the child exited with the code and was reaped,
\* the send on ch was received
Returned(plugin, instance, code) ==
    [NewInv(plugin, instance) EXCEPT
        !.pc = "parse", !.child = "exited", !.reaped = TRUE, !.exit = code,
        !.wd = "received", !.err = IF code = 0 THEN "nil" ELSE "exit"]

\* the outputs that runPlugin parses of the lines of a plugin and stores
ParsedOutputs(plugin, instance) ==
    {o \in {parsePluginOutput(PluginMetadata(plugin).Output, e, l) :
                e \in RateExitCodes, l \in RateLines(PluginMetadata(plugin).Output)} :
        /\ o.kind = "ok"
        /\ String(o.state) # "panic"
        /\ ~WritesPanic(PluginMetadata(plugin), instance, o)}

\* the outputs an earlier invocation of the key can have left in OutputCache:
\* as the loop over the writes left them
StoredOutputs(plugin, instance) ==
    {Rewritten(plugin, instance, o) : o \in ParsedOutputs(plugin, instance)}

\* a goroutine of the key "ng/" beside one of the same key, of another instance
\* of the plugin or of the other plugin; OutputCache holds what earlier
\* invocations of "ng/" and of "ng/i1" left
InitRates ==
    /\ previousConfig = Nil(NoConfig)
    /\ crashed = FALSE
    /\ lastFetched = Nil(NoConfig)
    /\ tick = NoTick
    /\ pin = NoInput
    /\ pres = NoPluginOutput
    /\ \E other \in {<<"ng", "">>, <<"ng", "i1">>, <<"ep", "i1">>} :
          \E c1 \in RateExitCodes, c2 \in RateExitCodes :
              invs = <<Returned("ng", "", c1), Returned(other[1], other[2], c2)>>
    /\ \E e1 \in {Nil(NoPluginOutput)} \cup {Some(o) : o \in StoredOutputs("ng", "")} :
          \E e2 \in {Nil(NoPluginOutput),
                     Some(parsePluginOutput("nagios", 0, NgTwoMetrics))} :
              OutputCache = [k \in Keys |->
                                IF k = cacheKey("ng", "") THEN e1
                                ELSE IF k = cacheKey("ng", "i1") THEN e2
                                ELSE Nil(NoPluginOutput)]

NextRates ==
    \/ \E i \in 1..Len(invs) :
          \E line \in RateLines(PluginMetadata(invs[i].plugin).Output) :
              RunPluginParse(i, line)
    \/ \E i \in 1..Len(invs) : RunPluginSendHttp(i)
    \/ \E i \in 1..Len(invs) :
          \E name \in NamesOf(MetricPoints(invs[i].out)) : RunPluginReportMetric(i, name)
    \/ \E i \in 1..Len(invs) : RunPluginGet(i)
    \/ \E i \in 1..Len(invs) :
          \E name \in NamesOf(RatesLeft(invs[i])) : RunPluginRate(i, name)
    \/ \E i \in 1..Len(invs) : RunPluginSet(i)

SpecRates == InitRates /\ [][NextRates]_vars

-----------------------------------------------------------------------------
(* the plugin registry: Agent.getAvailablePlugins, getPluginsInfo and       *)
(* parsePluginInfo applied to the contents of the two plugin directories    *)

\* paths are sequences of components
Join(dir, name) == Append(dir, name)
Base(p) == p[Len(p)]

\* path.Join(PLUGINS_DIR, string(latestVersion)) and CUSTOM_PLUGINS_DIR
PLUGINS_DIR == <<"plugins", "v1">>
CUSTOM_PLUGINS_DIR == <<"custom">>

\* the names of the entries of a plugin directory
DirNames == {"p", "q"}

\* info.yml: the output format and the calculate_rates patterns
Descriptor(output, rates) == [Output |-> output, CalculateRates |-> rates]

Descriptors == {Descriptor("nagios", {<<"a">>}), Descriptor("errplane", {})}

\* an entry of a plugin directory: a plain file ("file"), a directory with no
\* readable info.yml ("noinfo"), one whose info.yml is no yaml ("badyaml"),
\* or one with a descriptor ("plugin")
Entry(kind, descr) == [kind |-> kind, descr |-> descr]

Entries ==
    {Entry(k, Descriptor("", {})) : k \in {"file", "noinfo", "badyaml"}}
    \cup {Entry("plugin", d) : d \in Descriptors}

\* what ioutil.ReadDir yields: an error, or the entries by name
Listing(ok, entries) == [ok |-> ok, entries |-> entries]

Listings ==
    {Listing(FALSE, EmptyMap)} \cup
    {Listing(TRUE, e) : e \in UNION {[names -> Entries] : names \in SUBSET DirNames}}

\* parsePluginInfo (part_001:170-186) on the directory dirname
parsePluginInfo(dirname, entry) ==
    IF entry.kind # "plugin"
    THEN [ok |-> FALSE,
          plugin |-> [Name |-> "", Path |-> <<>>, Output |-> "", CalculateRates |-> {},
                      IsCustom |-> FALSE]]
    ELSE [ok |-> TRUE,
          plugin |-> [Name |-> Base(dirname), Path |-> dirname,
                      Output |-> entry.descr.Output,
                      CalculateRates |-> entry.descr.CalculateRates,
                      IsCustom |-> FALSE]]

\* getPluginsInfo (part_001:144-168) on the directory dir with the listing
getPluginsInfo(dir, listing) ==
    IF ~listing.ok THEN [ok |-> FALSE, plugins |-> EmptyMap]
    ELSE LET parsed == {n \in DOMAIN listing.entries :
                            /\ listing.entries[n].kind # "file"
                            /\ parsePluginInfo(Join(dir, n), listing.entries[n]).ok}
             plugin(n) == parsePluginInfo(Join(dir, n), listing.entries[n]).plugin
         IN  [ok |-> TRUE,
              plugins |-> [k \in {plugin(n).Name : n \in parsed} |->
                              LET n == CHOOSE m \in parsed : plugin(m).Name = k
                              IN  [plugin(n) EXCEPT !.Path = Join(dir, n)]]]

\* a merge that only flags the bundled entry of a name that is also custom
MergeCustomFlagOnly(plugins, customPlugins) ==
    [k \in DOMAIN plugins \cup DOMAIN customPlugins |->
        IF k \in DOMAIN plugins
        THEN [plugins[k] EXCEPT !.IsCustom = k \in DOMAIN customPlugins]
        ELSE [customPlugins[k] EXCEPT !.IsCustom = TRUE]]

\* part_001:137-141: custom plugins take precedence
MergeCustom(plugins, customPlugins) ==
    [k \in DOMAIN plugins \cup DOMAIN customPlugins |->
        IF k \in DOMAIN customPlugins
        THEN [customPlugins[k] EXCEPT !.IsCustom = TRUE]
        ELSE plugins[k]]

\* what getAvailablePlugins meets: the error of GetInstalledPluginsVersion
\* ("none", "notexist", "other"), whether GetCurrentPluginsVersion succeeds,
\* and the two directories
RegistryEnv(installedErr, latestOk, bundled, custom) ==
    [shape |-> "registry", installedErr |-> installedErr, latestOk |-> latestOk,
     bundled |-> bundled, custom |-> custom]

RegistryEnvs ==
    {RegistryEnv(i, l, b, c) : i \in {"none", "notexist", "other"}, l \in BOOLEAN,
                               b \in Listings, c \in Listings}

\* Agent.getAvailablePlugins (part_001:108-142): nil or the map
AgentGetAvailablePlugins(env) ==
    LET plugins       == getPluginsInfo(PLUGINS_DIR, env.bundled)
        customPlugins == getPluginsInfo(CUSTOM_PLUGINS_DIR, env.custom)
    IN  IF env.installedErr = "other" THEN Nil(EmptyMap)
        ELSE IF ~env.latestOk THEN Nil(EmptyMap)
        ELSE IF ~plugins.ok THEN Nil(EmptyMap)
        ELSE IF ~customPlugins.ok THEN Nil(EmptyMap)
        ELSE Some(MergeCustom(plugins.plugins, customPlugins.plugins))

\* the harness applies getAvailablePlugins to its input
Resolve ==
    /\ pres.kind = "none"
    /\ pres' = [kind |-> "registry", registry |-> AgentGetAvailablePlugins(pin)]
    /\ UNCHANGED <<previousConfig, invs, OutputCache, crashed, lastFetched, tick, pin>>

InitRegistry ==
    /\ InitAgent
    /\ pin \in RegistryEnvs
    /\ pres = NoPluginOutput

NextRegistry == Resolve

SpecRegistry == InitRegistry /\ [][NextRegistry]_vars

-----------------------------------------------------------------------------
(* properties of runPlugin, killPlugin and monitorPlugins (Spec)           *)

\* C1: an invocation whose watchdog took the timeout branch had Kill called on
\* its process, has no running child, has reported no point and has not
\* written the OutputCache entry of its key.
C1_TimedOutInvocationIsSilent ==
    \A i \in 1..Len(invs) :
        invs[i].wd = "timedout" =>
            /\ invs[i].kill
            /\ invs[i].child # "running"
            /\ invs[i].emitted = {}
            /\ ~invs[i].wrote

\* the child ran into the timeout and was killed, and runPlugin has read the
\* output, reaped the child and reached its send on ch
C1_Witness ==
    \E i \in 1..Len(invs) :
        /\ invs[i].wd = "timedout"
        /\ invs[i].child = "killed"
        /\ invs[i].reaped
        /\ invs[i].pc = "send"

\* C2: a child that is still running has its watchdog waiting to kill it, and
\* once runPlugin has returned and the watchdog has ended the child was waited
\* on or killed.
C2_ChildReapedOrKilled ==
    \A i \in 1..Len(invs) :
        /\ invs[i].child = "running" => invs[i].wd = "select"
        /\ (invs[i].child # "none" /\ invs[i].pc = "done" /\ invs[i].wd # "select")
              => (invs[i].reaped \/ invs[i].kill)

\* C3: no goroutine panics, whatever the plugin prints and however it ends.
C3_NoPanic == ~crashed

\* C4: a tick whose fetch failed launches the plugins of the last
\* configuration a fetch returned, and nothing when no fetch ever succeeded.
C4_FallsBackToLastConfig ==
    (tick.ran /\ ~tick.fetchOk) =>
        LET launch == IF lastFetched.set
                      THEN Launches(PluginNames, lastFetched.v, tick.plugins)
                      ELSE <<>>
        IN  tick.launched = {launch[k] : k \in 1..Len(launch)}

-----------------------------------------------------------------------------
(* properties of the parsers (SpecParse)                                   *)

Parsed == pres.kind # "none"

HasBar(line) == \E k \in 1..Len(line) : line[k] = "|"

\* the state an exit status stands for
StateOfExit(e) == IF e \in {OK, WARNING, CRITICAL, UNKNOWN} THEN e ELSE UNKNOWN

\* C5: the state of a returned PluginOutput is OK, WARNING, CRITICAL or UNKNOWN
\* for exit codes 0, 1, 2, 3 and UNKNOWN for every other exit status.
C5_StateFromExitCode ==
    (Parsed /\ pres.kind = "ok") => pres.state = StateOfExit(pin.exit)

\* the text is one JSON value with white space around it
ValidJson(text) == scanJson(TrimSpace(text)).ok

\* C6: an errplane line without '|', or with a segment after the '|' that is
\* no JSON, makes the parser return an error.
C6_ErrplaneParseError ==
    (/\ Parsed
     /\ pin.fmt = "errplane"
     /\ \/ ~HasBar(pin.line)
        \/ pin.shape = "json" /\ ~ValidJson(pin.json))
    => pres.kind = "error"

Names(toks) == {toks[k].name.text : k \in 1..Len(toks)}

DistinctNames(toks) == Cardinality(Names(toks)) = Len(toks)

NumTokens(toks) == {k \in 1..Len(toks) : toks[k].val.kind = "num"}

\* the metric map a token sequence with distinct names denotes: the tokens
\* whose value is a number, each name with its number
Denoted(toks) ==
    [n \in {toks[k].name.text : k \in NumTokens(toks)} |->
        toks[CHOOSE k \in NumTokens(toks) : toks[k].name.text = n].val.num]

IsMetrics(m) == pres.kind = "ok" /\ pres.metrics.set /\ pres.metrics.v = m

\* C7: one token with a quoted name and a numeric value yields exactly one
\* metric, named by the unquoted text.
C7_QuotedNameWhole ==
    (/\ Parsed
     /\ pin.shape = "tokens"
     /\ Len(pin.toks) = 1
     /\ pin.toks[1].name.quoted
     /\ pin.toks[1].val.kind = "num")
    => IsMetrics(Denoted(pin.toks))

PlainNumber(v) == v.kind = "num" /\ v.unit = <<>> /\ v.thr = <<>>

C8_Case ==
    /\ Parsed
    /\ pin.shape = "tokens"
    /\ DistinctNames(pin.toks)
    /\ \A k \in 1..Len(pin.toks) :
          ~pin.toks[k].name.quoted /\ PlainNumber(pin.toks[k].val)

\* C8: unquoted name=number tokens with distinct names, separated by spaces,
\* yield the map of exactly those names, each with its own number.
C8_UnquotedTokens == C8_Case => IsMetrics(Denoted(pin.toks))

C9_Case ==
    /\ Parsed
    /\ pin.shape = "tokens"
    /\ Len(pin.toks) = 1
    /\ pin.toks[1].val.kind = "num"

\* C9: the value of a token <number><unit>[;thresholds] is the number, for
\* each of the units s, ms, us, B, KB, MB, GB, %, c and none.
C9_UnitAndThresholdsStripped ==
    C9_Case =>
        /\ pres.kind = "ok"
        /\ pres.metrics.set
        /\ Cardinality(DOMAIN pres.metrics.v) = 1
        /\ \A n \in DOMAIN pres.metrics.v : pres.metrics.v[n] = pin.toks[1].val.num

\* C10: among unquoted tokens with distinct names, those whose value is no
\* number are dropped and the others are returned with their numbers.
C10_BadValueDropped ==
    (/\ Parsed
     /\ pin.shape = "tokens"
     /\ DistinctNames(pin.toks)
     /\ \A k \in 1..Len(pin.toks) : ~pin.toks[k].name.quoted)
    => IsMetrics(Denoted(pin.toks))

\* C12: an invocation whose child was ended by a signal that is not the
\* watchdog's is a failed cycle: it has reported no point, has not written
\* OutputCache, and has not brought the agent down with a panic.
C12_SignalEndedIsFailedCycle ==
    \A i \in 1..Len(invs) :
        invs[i].child = "signaled" =>
            /\ invs[i].emitted = {}
            /\ ~invs[i].wrote
            /\ invs[i].pc # "panic"

\* the (plugin, instance) pairs a configuration asks for among the plugins of
\* a registry
Configured(config, plugins) ==
    {<<n, inst>> \in PluginNames \X {"", "i1"} :
        /\ config[n].set
        /\ n \in plugins
        /\ IF Len(config[n].v) = 0 THEN inst = ""
           ELSE \E k \in 1..Len(config[n].v) : config[n].v[k] = inst}

\* C15: a tick that fetched a configuration launched one invocation for each
\* configured instance of each configured plugin of the registry, one with the
\* instance name "" for a plugin configured with no instance, and none for a
\* configured name the registry of the tick does not hold.
C15_OneLaunchPerInstance ==
    (tick.ran /\ tick.fetchOk) =>
        /\ tick.launched = Configured(lastFetched.v, tick.plugins)
        /\ tick.count = Cardinality(tick.launched)

\* "ng" with the instance i1 is launched on a tick whose registry lacks the
\* configured "ep"
C15_Witness ==
    /\ tick.ran
    /\ tick.fetchOk
    /\ lastFetched.v["ep"].set
    /\ "ep" \notin tick.plugins
    /\ tick.launched = {<<"ng", "i1">>}
    /\ Len(invs) = 1
    /\ invs[1].plugin = "ng"
    /\ invs[1].instance = "i1"

\* C20: no runPlugin goroutine is left at its send on ch with no receiver. A
\* watchdog that has left its select never receives again, so a goroutine in
\* such a state stays blocked at the send for ever and never finishes.
C20_NoTaskBlockedOnSend ==
    \A i \in 1..Len(invs) :
        invs[i].pc \in {"send", "sendReadErr"} => invs[i].wd = "select"

-----------------------------------------------------------------------------
(* properties of the rate tracker (SpecRates)                              *)

\* the key "plugin/instance" of an invocation
KeyOf(r) == (r.plugin \o "/") \o r.instance

RateNames(r) == {p.name : p \in {q \in r.emitted : q.kind = "rate"}}

\* the metric names of a sample
SampleNames(o) ==
    IF o.metrics.set THEN DOMAIN o.metrics.v
    ELSE {w.Name : w \in Writes(o)}

\* the entry of its key that an invocation found: the one its Get returned,
\* or the one OutputCache holds when the invocation ended before its Get
PreviousEntry(r) == IF r.pc \in {"rates", "done"} THEN r.prev ELSE OutputCache[KeyOf(r)]

\* the metrics for which the four conditions hold, given the entry found
RatesDue(r, entry) ==
    IF entry.set /\ entry.v.metrics.set
    THEN {m \in DOMAIN entry.v.metrics.v :
            /\ m \in SampleNames(r.out)
            /\ \E pat \in PluginMetadata(r.plugin).CalculateRates : MatchString(pat, m).matched}
    ELSE {}

\* the invocation has ended with an output that the parser returned
EndedParsed(r) == r.pc \in {"done", "panic"} /\ r.out.kind = "ok"

\* C11: an invocation emits the rate point of a metric exactly when
\* OutputCache held an entry for its key, the metric is in the metric map of
\* that entry, it is in the current sample and it matches a calculate_rates
\* pattern: it never emits another rate point, and once it has ended with a
\* parsed output it has emitted the rate point of every such metric.
C11_RateExactlyWhenDue ==
    \A i \in 1..Len(invs) :
        /\ RateNames(invs[i]) \subseteq RatesDue(invs[i], PreviousEntry(invs[i]))
        /\ EndedParsed(invs[i]) =>
              RateNames(invs[i]) = RatesDue(invs[i], PreviousEntry(invs[i]))

-----------------------------------------------------------------------------
(* properties of the plugin registry (SpecRegistry)                        *)

Resolved == pres.kind = "registry"

\* the names of the subdirectories of a listed directory that have a descriptor
PluginsOf(listing) ==
    IF listing.ok
    THEN {n \in DOMAIN listing.entries : listing.entries[n].kind = "plugin"}
    ELSE {}

\* the metadata of the plugin n of a directory
MetadataOf(dir, listing, n, isCustom) ==
    [Name |-> n, Path |-> dir \o <<n>>,
     Output |-> listing.entries[n].descr.Output,
     CalculateRates |-> listing.entries[n].descr.CalculateRates,
     IsCustom |-> isCustom]

\* C13: a returned registry has one entry for each name that is a plugin of
\* the bundled or of the custom directory; the entry of a custom name is the
\* custom plugin's metadata as a whole with IsCustom = TRUE, also when the
\* name is bundled too, and the entry of a name that is only bundled is the
\* bundled metadata with IsCustom = FALSE.
C13_CustomOverridesWhole ==
    (Resolved /\ pres.registry.set) =>
        /\ DOMAIN pres.registry.v = PluginsOf(pin.bundled) \cup PluginsOf(pin.custom)
        /\ \A n \in DOMAIN pres.registry.v :
              pres.registry.v[n] =
                  IF n \in PluginsOf(pin.custom)
                  THEN MetadataOf(CUSTOM_PLUGINS_DIR, pin.custom, n, TRUE)
                  ELSE MetadataOf(PLUGINS_DIR, pin.bundled, n, FALSE)

\* "p" is bundled and custom with different descriptors, "q" is only bundled
C13_Witness ==
    /\ Resolved
    /\ pres.registry.set
    /\ DOMAIN pres.registry.v = {"p", "q"}
    /\ "p" \in PluginsOf(pin.bundled) \cap PluginsOf(pin.custom)
    /\ pin.bundled.entries["p"].descr # pin.custom.entries["p"].descr
    /\ "q" \notin PluginsOf(pin.custom)
    /\ pres.registry.v["p"].IsCustom
    /\ ~pres.registry.v["q"].IsCustom

\* C14: when both version lookups succeed, every plugin of a directory that
\* could be listed is in the resolved registry, whatever failed beside it: a
\* sibling without a usable descriptor, or the listing of the other directory.
C14_ScanFailureExcludesOnlyFailed ==
    (Resolved /\ pin.installedErr # "other" /\ pin.latestOk) =>
        \A listing \in {pin.bundled, pin.custom} :
            \A n \in PluginsOf(listing) :
                /\ pres.registry.set
                /\ n \in DOMAIN pres.registry.v

\* C16: of two invocations of one key that both ran to their end with a
\* parsed output, one used the other's output as its previous sample: their
\* reads and writes of the entry are not interleaved, so neither sample is
\* lost and no sample is the previous one twice.
C16_PreviousIsPrecedingSample ==
    \A i \in 1..Len(invs) : \A j \in 1..Len(invs) :
        (/\ i # j
         /\ KeyOf(invs[i]) = KeyOf(invs[j])
         /\ invs[i].pc = "done" /\ invs[i].wrote
         /\ invs[j].pc = "done" /\ invs[j].wrote)
        => \/ invs[i].prev = Some(invs[j].out)
           \/ invs[j].prev = Some(invs[i].out)

\* the invocation i ends in this step: it returns, or it panics
EndsRun(i) == invs[i].pc \notin {"done", "panic"} /\ invs'[i].pc \in {"done", "panic"}

\* C17: the step in which an invocation with a parsed output ends leaves that
\* output in the OutputCache entry of its key "plugin/instance", whether or
\* not there was an entry and whether or not a rate was emitted, and changes
\* no other entry; no step removes an entry, and no other step changes one.
C17_EntryIsLastOutput ==
    [][/\ \A i \in 1..Len(invs) :
            (EndsRun(i) /\ invs'[i].out.kind = "ok") =>
                /\ KeyOf(invs[i]) \in DOMAIN OutputCache'
                /\ OutputCache'[KeyOf(invs[i])] = Some(invs'[i].out)
                /\ \A k \in DOMAIN OutputCache \ {KeyOf(invs[i])} :
                      OutputCache'[k] = OutputCache[k]
       /\ \A k \in DOMAIN OutputCache : OutputCache[k].set => OutputCache'[k].set
       /\ OutputCache' # OutputCache =>
            \E i \in 1..Len(invs) : EndsRun(i) /\ invs'[i].out.kind = "ok"
      ]_vars

-----------------------------------------------------------------------------
(* more properties of the parsers (SpecParse)                              *)

\* C18: an errplane line "ok | <json>" whose JSON text is valid yields the
\* message "ok", the text before the first '|', and the points the whole text
\* after the first '|' decodes to, also when that text holds a '|' itself.
C18_JsonIsAllAfterFirstBar ==
    (/\ Parsed
     /\ pin.fmt = "errplane"
     /\ pin.shape = "json"
     /\ JsonUnmarshal(pin.json).ok)
    => /\ pres.kind = "ok"
       /\ pres.msg = Message
       /\ pres.points = JsonUnmarshal(pin.json).writes

\* C19: a returned PluginOutput has points set and metrics unset
\* for the errplane format, metrics set and points unset for the nagios
\* format, the status-only nagios line included.
C19_ExactlyOnePopulated ==
    (Parsed /\ pres.kind = "ok") =>
        IF pin.fmt = "errplane"
        THEN pres.points.set /\ ~pres.metrics.set
        ELSE pres.metrics.set /\ ~pres.points.set

====
